---------------------------- MODULE Spec2Model ----------------------------
(***************************************************************************)
(* A model of the HTTP/1.x request parser of src/src/models.rs, and of     *)
(* the HttpElems iterator of src/src/main.rs that the server drives.       *)
(*                                                                         *)
(* Strings are sequences of one-character strings, so that splitting,      *)
(* trimming and number parsing are computed character by character, as     *)
(* the Rust code computes them.  An Option is a record with a "some"       *)
(* field, a Result a record with an "ok" field.                            *)
(***************************************************************************)
EXTENDS Integers, Sequences, FiniteSets, TLC

VARIABLES
    stream,           \* the bytes of the connection (a sequence of bytes, not
                      \* of characters), behind the BufReader
    pos,              \* number of bytes the BufReader has consumed
    pc,               \* where parse_http_request is
    request_line,     \* Option<RequestLine>: the local of parse_http_request
    request_headers,  \* RequestHeaders under construction
    general_headers,  \* GeneralHeaders under construction
    entity_headers,   \* EntityHeaders under construction
    result,           \* Option<Result<HttpRequest, String>>: what was returned
    reads,            \* history: one record per read made on the stream
    fn_in,            \* argument of the pure function under check
    fn_out,           \* Option<result> of the pure function under check
    http_elems,       \* the fields of HttpElems besides its reader (main.rs)
    calls             \* history: one record per call of HttpElems::next

vars == <<stream, pos, pc, request_line, request_headers, general_headers,
          entity_headers, result, reads, fn_in, fn_out, http_elems, calls>>

elemsVars == <<http_elems, calls>>

parserVars == <<stream, pos, pc, request_line, request_headers,
                general_headers, entity_headers, result, reads, elemsVars>>

---------------------------------------------------------------------------
(* Option and Result *)

None == [some |-> FALSE]

Some(v) == [some |-> TRUE, val |-> v]

Ok(v) == [ok |-> TRUE, val |-> v]

Err(e) == [ok |-> FALSE, err |-> e]

---------------------------------------------------------------------------
(* Characters *)

CR == "\r"

LF == "\n"

\* Two alphabets.  A byte of the stream is written as the ASCII character it
\* encodes ("G", " ", CR), or as "x" and two hexadecimal digits when it has
\* no escape in a TLA+ string or is 0x80 or more ("x0B", "xC2", "xFF").  A
\* character of a String is written as itself when it is ASCII, where it is
\* the same as its byte, and as "u" and its code point in hexadecimal
\* otherwise ("u00A0", "uFFFD").  The stream holds bytes only; a character
\* above U+007F takes two to four of them.

HexDigits ==
    <<"0", "1", "2", "3", "4", "5", "6", "7", "8", "9",
      "A", "B", "C", "D", "E", "F">>

Hex(n) == HexDigits[n + 1]

\* The bytes 0x80 to 0xFF, in the order of their values.
HighByteSeq ==
    <<"x80", "x81", "x82", "x83", "x84", "x85", "x86", "x87",
      "x88", "x89", "x8A", "x8B", "x8C", "x8D", "x8E", "x8F",
      "x90", "x91", "x92", "x93", "x94", "x95", "x96", "x97",
      "x98", "x99", "x9A", "x9B", "x9C", "x9D", "x9E", "x9F",
      "xA0", "xA1", "xA2", "xA3", "xA4", "xA5", "xA6", "xA7",
      "xA8", "xA9", "xAA", "xAB", "xAC", "xAD", "xAE", "xAF",
      "xB0", "xB1", "xB2", "xB3", "xB4", "xB5", "xB6", "xB7",
      "xB8", "xB9", "xBA", "xBB", "xBC", "xBD", "xBE", "xBF",
      "xC0", "xC1", "xC2", "xC3", "xC4", "xC5", "xC6", "xC7",
      "xC8", "xC9", "xCA", "xCB", "xCC", "xCD", "xCE", "xCF",
      "xD0", "xD1", "xD2", "xD3", "xD4", "xD5", "xD6", "xD7",
      "xD8", "xD9", "xDA", "xDB", "xDC", "xDD", "xDE", "xDF",
      "xE0", "xE1", "xE2", "xE3", "xE4", "xE5", "xE6", "xE7",
      "xE8", "xE9", "xEA", "xEB", "xEC", "xED", "xEE", "xEF",
      "xF0", "xF1", "xF2", "xF3", "xF4", "xF5", "xF6", "xF7",
      "xF8", "xF9", "xFA", "xFB", "xFC", "xFD", "xFE", "xFF">>

\* The bytes that are not ASCII.
HighBytes == {HighByteSeq[i] : i \in 1..128}

\* The value of each byte that is not ASCII.
ByteValues ==
    [b \in HighBytes |-> 127 + CHOOSE i \in 1..128 : HighByteSeq[i] = b]

ByteValue(b) == ByteValues[b]

RECURSIVE HexN(_, _)
HexN(n, digits) ==
    IF digits = 0 THEN "" ELSE HexN(n \div 16, digits - 1) \o Hex(n % 16)

\* The character of code point cp, cp >= 128.
CharToken(cp) ==
    "u" \o HexN(cp, IF cp < 65536 THEN 4 ELSE IF cp < 1048576 THEN 5 ELSE 6)

\* A byte that is not valid UTF-8 on its own (0xFF).
BadByte == "xFF"

\* U+FFFD, what String::from_utf8_lossy puts in place of an invalid
\* sequence of bytes.
ReplacementChar == "uFFFD"

\* char::is_whitespace: the characters of the Unicode property White_Space.
WhiteSpace ==
    {"\t", LF, "x0B", "\f", CR, " ", "u0085", "u00A0", "u1680",
     "u2000", "u2001", "u2002", "u2003", "u2004", "u2005", "u2006", "u2007",
     "u2008", "u2009", "u200A", "u2028", "u2029", "u202F", "u205F", "u3000"}

Digits == {"0", "1", "2", "3", "4", "5", "6", "7", "8", "9"}

\* char::is_ascii_alphabetic
AsciiAlphabetic ==
    {"A", "B", "C", "D", "E", "F", "G", "H", "I", "J", "K", "L", "M",
     "N", "O", "P", "Q", "R", "S", "T", "U", "V", "W", "X", "Y", "Z",
     "a", "b", "c", "d", "e", "f", "g", "h", "i", "j", "k", "l", "m",
     "n", "o", "p", "q", "r", "s", "t", "u", "v", "w", "x", "y", "z"}

---------------------------------------------------------------------------
(* str operations of the Rust standard library *)

Tail_From(s, i) == SubSeq(s, i, Len(s))

\* Index of the first occurrence of c in s, 0 when there is none.
Find(s, c) ==
    IF \E i \in 1..Len(s) : s[i] = c
    THEN CHOOSE i \in 1..Len(s) : s[i] = c /\ \A j \in 1..(i - 1) : s[j] # c
    ELSE 0

\* str::split with a one-character pattern: always at least one piece.
RECURSIVE Split(_, _)
Split(s, c) ==
    LET i == Find(s, c)
    IN  IF i = 0
        THEN <<s>>
        ELSE <<SubSeq(s, 1, i - 1)>> \o Split(Tail_From(s, i + 1), c)

\* str::splitn(2, c): cut at the first occurrence only.
SplitN2(s, c) ==
    LET i == Find(s, c)
    IN  IF i = 0
        THEN <<s>>
        ELSE <<SubSeq(s, 1, i - 1), Tail_From(s, i + 1)>>

RECURSIVE TrimStart(_)
TrimStart(s) ==
    IF s # <<>> /\ Head(s) \in WhiteSpace THEN TrimStart(Tail(s)) ELSE s

RECURSIVE TrimEnd(_)
TrimEnd(s) ==
    IF s # <<>> /\ s[Len(s)] \in WhiteSpace
    THEN TrimEnd(SubSeq(s, 1, Len(s) - 1))
    ELSE s

\* str::trim
Trim(s) == TrimEnd(TrimStart(s))

DigitVal(c) ==
    CASE c = "0" -> 0 [] c = "1" -> 1 [] c = "2" -> 2 [] c = "3" -> 3
      [] c = "4" -> 4 [] c = "5" -> 5 [] c = "6" -> 6 [] c = "7" -> 7
      [] c = "8" -> 8 [] c = "9" -> 9

RECURSIVE StripZeros(_)
StripZeros(d) ==
    IF Len(d) > 1 /\ Head(d) = "0" THEN StripZeros(Tail(d)) ELSE d

\* Comparison of two numerals without leading zeros.
RECURSIVE NumeralLeq(_, _)
NumeralLeq(a, b) ==
    IF Len(a) # Len(b) THEN Len(a) < Len(b)
    ELSE IF a = <<>> THEN TRUE
    ELSE IF Head(a) # Head(b) THEN DigitVal(Head(a)) < DigitVal(Head(b))
    ELSE NumeralLeq(Tail(a), Tail(b))

RECURSIVE NumeralValue(_)
NumeralValue(d) ==
    IF d = <<>> THEN 0
    ELSE 10 * NumeralValue(SubSeq(d, 1, Len(d) - 1)) + DigitVal(d[Len(d)])

\* u32::MAX and usize::MAX (64-bit target) as numerals.
U32Max == <<"4", "2", "9", "4", "9", "6", "7", "2", "9", "5">>

UsizeMax ==
    <<"1", "8", "4", "4", "6", "7", "4", "4", "0", "7",
      "3", "7", "0", "9", "5", "5", "1", "6", "1", "5">>

\* str::parse::<uN>(): an optional "+", then one or more ASCII digits, and
\* the value must not exceed the type's maximum.  A "-" is never accepted.
\* The characters are read from left to right and the first failure is the
\* error returned: digits that exceed the maximum before a character that
\* is no digit give the overflow error.
ParseUnsigned(s, max) ==
    LET d == IF s # <<>> /\ Head(s) = "+" THEN Tail(s) ELSE s
        bad == {i \in 1..Len(d) : d[i] \notin Digits}
        k == IF bad = {} THEN Len(d) + 1
             ELSE CHOOSE i \in bad : \A j \in bad : i <= j
        leading == SubSeq(d, 1, k - 1)
    IN  IF s = <<>> THEN Err("cannot parse integer from empty string")
        ELSE IF d = <<>> THEN Err("invalid digit found in string")
        ELSE IF ~NumeralLeq(StripZeros(leading), max)
        THEN Err("number too large to fit in target type")
        ELSE IF k <= Len(d) THEN Err("invalid digit found in string")
        ELSE Ok(NumeralValue(StripZeros(d)))

ParseU32(s) == ParseUnsigned(s, U32Max)

ParseUsize(s) == ParseUnsigned(s, UsizeMax)

\* Display of an unsigned integer: decimal, no sign, no leading zeros.
RECURSIVE NumeralOf(_)
NumeralOf(n) ==
    LET digit == CHOOSE c \in Digits : DigitVal(c) = n % 10
    IN  IF n < 10 THEN <<digit>> ELSE NumeralOf(n \div 10) \o <<digit>>

---------------------------------------------------------------------------
(* The header classification tables: <<wire name, variant>> *)

RequestHeaderTable ==
    { <<<<"A", "c", "c", "e", "p", "t">>, "Accept">>,
      <<<<"A", "c", "c", "e", "p", "t", "-", "C", "h", "a", "r", "s", "e", "t">>, "AcceptCharset">>,
      <<<<"A", "c", "c", "e", "p", "t", "-", "E", "n", "c", "o", "d", "i", "n", "g">>, "AcceptEncoding">>,
      <<<<"A", "c", "c", "e", "p", "t", "-", "L", "a", "n", "g", "u", "a", "g", "e">>, "AcceptLanguage">>,
      <<<<"A", "u", "t", "h", "o", "r", "i", "z", "a", "t", "i", "o", "n">>, "Authorization">>,
      <<<<"E", "x", "p", "e", "c", "t">>, "Expect">>,
      <<<<"F", "r", "o", "m">>, "From">>,
      <<<<"H", "o", "s", "t">>, "Host">>,
      <<<<"I", "f", "-", "M", "a", "t", "c", "h">>, "IfMatch">>,
      <<<<"I", "f", "-", "M", "o", "d", "i", "f", "i", "e", "d", "-", "S", "i", "n", "c", "e">>, "IfModifiedSince">>,
      <<<<"I", "f", "-", "N", "o", "n", "e", "-", "M", "a", "t", "c", "h">>, "IfNoneMatch">>,
      <<<<"I", "f", "-", "R", "a", "n", "g", "e">>, "IfRange">>,
      <<<<"I", "f", "-", "U", "n", "m", "o", "d", "i", "f", "i", "e", "d", "-", "S", "i", "n", "c", "e">>, "IfUnmodifiedSince">>,
      <<<<"M", "a", "x", "-", "F", "o", "r", "w", "a", "r", "d", "s">>, "MaxForwards">>,
      <<<<"P", "r", "o", "x", "y", "-", "A", "u", "t", "h", "o", "r", "i", "z", "a", "t", "i", "o", "n">>, "ProxyAuthorization">>,
      <<<<"R", "a", "n", "g", "e">>, "Range">>,
      <<<<"R", "e", "f", "e", "r", "e", "r">>, "Referer">>,
      <<<<"T", "E">>, "TE">>,
      <<<<"U", "s", "e", "r", "-", "A", "g", "e", "n", "t">>, "UserAgent">> }

GeneralHeaderTable ==
    { <<<<"C", "a", "c", "h", "e", "C", "o", "n", "t", "r", "o", "l">>, "CacheControl">>,
      <<<<"C", "o", "n", "n", "e", "c", "t", "i", "o", "n">>, "Connection">>,
      <<<<"D", "a", "t", "e">>, "Date">>,
      <<<<"P", "r", "a", "g", "m", "a">>, "Pragma">>,
      <<<<"T", "r", "a", "i", "l", "e", "r">>, "Trailer">>,
      <<<<"T", "r", "a", "n", "s", "f", "e", "r", "E", "n", "c", "o", "d", "i", "n", "g">>, "TransferEncoding">>,
      <<<<"U", "p", "g", "r", "a", "d", "e">>, "Upgrade">>,
      <<<<"V", "i", "a">>, "Via">>,
      <<<<"W", "a", "r", "n", "i", "n", "g">>, "Warning">> }

EntityHeaderTable ==
    { <<<<"A", "l", "l", "o", "w">>, "Allow">>,
      <<<<"C", "o", "n", "t", "e", "n", "t", "E", "n", "c", "o", "d", "i", "n", "g">>, "ContentEncoding">>,
      <<<<"C", "o", "n", "t", "e", "n", "t", "L", "a", "n", "g", "u", "a", "g", "e", "s">>, "ContentLanguages">>,
      <<<<"C", "o", "n", "t", "e", "n", "t", "L", "e", "n", "g", "t", "h">>, "ContentLength">>,
      <<<<"C", "o", "n", "t", "e", "n", "t", "L", "o", "c", "a", "t", "i", "o", "n">>, "ContentLocation">>,
      <<<<"C", "o", "n", "t", "e", "n", "t", "M", "D", "5">>, "ContentMD5">>,
      <<<<"C", "o", "n", "t", "e", "n", "t", "R", "a", "n", "g", "e">>, "ContentRange">>,
      <<<<"C", "o", "n", "t", "e", "n", "t", "T", "y", "p", "e">>, "ContentType">>,
      <<<<"E", "x", "p", "i", "r", "e", "s">>, "Expires">>,
      <<<<"L", "a", "s", "t", "M", "o", "d", "i", "f", "i", "e", "d">>, "LastModified">> }

ResponseHeaderTable ==
    { <<<<"A", "c", "c", "e", "p", "t", "R", "a", "n", "g", "e", "s">>, "AcceptRanges">>,
      <<<<"A", "g", "e">>, "Age">>,
      <<<<"E", "T", "a", "g">>, "ETag">>,
      <<<<"L", "o", "c", "a", "t", "i", "o", "n">>, "Location">>,
      <<<<"P", "r", "o", "x", "y", "A", "u", "t", "h", "e", "n", "t", "i", "c", "a", "t", "e">>, "ProxyAuthenticate">>,
      <<<<"R", "e", "t", "r", "y", "A", "f", "t", "e", "r">>, "RetryAfter">>,
      <<<<"S", "e", "r", "v", "e", "r">>, "Server">>,
      <<<<"V", "a", "r", "y">>, "Vary">>,
      <<<<"W", "W", "W", "A", "u", "t", "h", "e", "n", "t", "i", "c", "a", "t", "e">>, "WWWAuthenticate">> }

---------------------------------------------------------------------------
(* Method, Host, RequestLine *)

\* The wire tokens parse_method_from_wire matches, with their variants.
MethodTable ==
    { <<<<"O", "P", "T", "I", "O", "N">>, "OPTION">>,
      <<<<"G", "E", "T">>, "GET">>,
      <<<<"P", "O", "S", "T">>, "POST">>,
      <<<<"P", "U", "T">>, "PUT">>,
      <<<<"D", "E", "L", "E", "T", "E">>, "DELETE">>,
      <<<<"T", "R", "A", "C", "E">>, "TRACE">>,
      <<<<"C", "O", "N", "N", "E", "C", "T">>, "CONNECT">> }

is_valid_extension_method(content) ==
    \A i \in 1..Len(content) : content[i] \in AsciiAlphabetic

parse_method_from_wire(content) ==
    LET hits == {p \in MethodTable : p[1] = content}
    IN  IF hits # {}
        THEN Ok([variant |-> (CHOOSE p \in hits : TRUE)[2]])
        ELSE IF is_valid_extension_method(content)
        THEN Ok([variant |-> "EXTENSION", token |-> content])
        ELSE Err("Invalid Extension Method")

\* A version parser that falls back to 1 for a number it cannot read.
parse_version_numbers_Default(content) ==
    LET parts == Split(content, "/")
    IN  IF Len(parts) # 2
        THEN Err("Expecting 2 values in version line: HTTP/Version")
        ELSE IF parts[1] # <<"H", "T", "T", "P">>
        THEN Err("Unsupported version string")
        ELSE LET version_parts == Split(parts[2], ".")
             IN  IF Len(version_parts) # 2
                 THEN Err("Expecting version format: <u32>.<u32>")
                 ELSE LET v_major == ParseU32(version_parts[1])
                          v_minor == ParseU32(version_parts[2])
                      IN  Ok(<<IF v_major.ok THEN v_major.val ELSE 1,
                               IF v_minor.ok THEN v_minor.val ELSE 1>>)

parse_version_numbers(content) ==
    LET parts == Split(content, "/")
    IN  IF Len(parts) # 2
        THEN Err("Expecting 2 values in version line: HTTP/Version")
        ELSE IF parts[1] # <<"H", "T", "T", "P">>
        THEN Err("Unsupported version string")
        ELSE LET version_parts == Split(parts[2], ".")
             IN  IF Len(version_parts) # 2
                 THEN Err("Expecting version format: <u32>.<u32>")
                 ELSE LET v_major == ParseU32(version_parts[1])
                          v_minor == ParseU32(version_parts[2])
                      IN  IF ~v_major.ok THEN Err(v_major.err)
                          ELSE IF ~v_minor.ok THEN Err(v_minor.err)
                          ELSE Ok(<<v_major.val, v_minor.val>>)

\* A host parser without the check for more than one colon.
parse_host_from_wire_NoPartsCheck(content) ==
    LET parts == Split(content, ":")
    IN  IF Len(parts) >= 2
        THEN LET p == ParseU32(parts[2])
             IN  IF p.ok
                 THEN Ok([hostname |-> parts[1], port |-> p.val])
                 ELSE Err("Failed to parse port")
        ELSE Ok([hostname |-> parts[1], port |-> 80])

parse_host_from_wire(content) ==
    LET parts == Split(content, ":")
    IN  IF Len(parts) > 2
        THEN Err("Expected hostname:port or hostname")
        ELSE IF Len(parts) = 2
        THEN LET p == ParseU32(parts[2])
             IN  IF p.ok
                 THEN Ok([hostname |-> parts[1], port |-> p.val])
                 ELSE Err("Failed to parse port")
        ELSE Ok([hostname |-> parts[1], port |-> 80])

\* A rendering that leaves the default port out, as a URL would.
Host_fmt_OmitDefault(host) ==
    IF host.port = 80
    THEN host.hostname
    ELSE host.hostname \o <<":">> \o NumeralOf(host.port)

\* impl Display for Host
Host_fmt(host) == host.hostname \o <<":">> \o NumeralOf(host.port)

\* A request-line parser that drops empty fields, as split_whitespace does.
parse_request_line_SkipEmpty(value) ==
    LET values == SelectSeq(Split(value, " "), LAMBDA f : f # <<>>)
    IN  IF Len(values) # 3
        THEN Err("Expecting 3 values in request line: Method SP URI SP HTTP/Version")
        ELSE LET method == parse_method_from_wire(values[1])
                 version == parse_version_numbers(values[3])
             IN  IF ~method.ok THEN Err(method.err)
                 ELSE IF ~version.ok THEN Err(version.err)
                 ELSE Ok([method |-> method.val, uri |-> values[2],
                          v_major |-> version.val[1],
                          v_minor |-> version.val[2]])

parse_request_line(value) ==
    LET values == Split(value, " ")
    IN  IF Len(values) # 3
        THEN Err("Expecting 3 values in request line: Method SP URI SP HTTP/Version")
        ELSE LET method == parse_method_from_wire(values[1])
                 version == parse_version_numbers(values[3])
             IN  IF ~method.ok THEN Err(method.err)
                 ELSE IF ~version.ok THEN Err(version.err)
                 ELSE Ok([method |-> method.val, uri |-> values[2],
                          v_major |-> version.val[1],
                          v_minor |-> version.val[2]])

---------------------------------------------------------------------------
(* Header classification and the header containers *)

Variants(table) == {p[2] : p \in table}

Lookup(table, key) ==
    LET hits == {p \in table : p[1] = key}
    IN  IF hits = {} THEN None ELSE Some((CHOOSE p \in hits : TRUE)[2])

RequestHeader_from(key) == Lookup(RequestHeaderTable, key)

GeneralHeader_from(key) == Lookup(GeneralHeaderTable, key)

ResponseHeader_from(key) == Lookup(ResponseHeaderTable, key)

\* EntityHeader::from without its catch-all arm, like the other three tables.
EntityHeader_from_NoCatchAll(key) ==
    LET known == Lookup(EntityHeaderTable, key)
    IN  IF known.some THEN Some([variant |-> known.val]) ELSE None

\* Never None: a name outside the table becomes Extension(name).
EntityHeader_from(key) ==
    LET known == Lookup(EntityHeaderTable, key)
    IN  IF known.some
        THEN Some([variant |-> known.val])
        ELSE Some([variant |-> "Extension", name |-> key])

RequestHeaders_new == [v \in Variants(RequestHeaderTable) |-> None]

GeneralHeaders_new == [v \in Variants(GeneralHeaderTable) |-> None]

EntityHeaders_new ==
    [fields |-> [v \in Variants(EntityHeaderTable) |-> None],
     extensions |-> [k \in {} |-> <<>>]]

\* An insert that keeps the value a key already has.
HashMap_insert_KeepFirst(map, k, v) ==
    [x \in DOMAIN map \cup {k} |-> IF x \in DOMAIN map THEN map[x] ELSE v]

\* HashMap::insert
HashMap_insert(map, k, v) ==
    [x \in DOMAIN map \cup {k} |-> IF x = k THEN v ELSE map[x]]

\* An insert that assigns the host slot before it looks at the outcome of
\* the host parse, and so clears the slot when the value does not parse.
RequestHeaders_insert_ClearOnError(self, key, value) ==
    IF key = "Host"
    THEN LET host == parse_host_from_wire(value)
         IN  IF host.ok
             THEN [ok |-> TRUE, self |-> [self EXCEPT ![key] = Some(host.val)]]
             ELSE [ok |-> FALSE, self |-> [self EXCEPT ![key] = None],
                   err |-> host.err]
    ELSE [ok |-> TRUE, self |-> [self EXCEPT ![key] = Some(value)]]

\* The insert methods return the container as it is after the call: on Err
\* the container they were given.
RequestHeaders_insert(self, key, value) ==
    IF key = "Host"
    THEN LET host == parse_host_from_wire(value)
         IN  IF host.ok
             THEN [ok |-> TRUE, self |-> [self EXCEPT ![key] = Some(host.val)]]
             ELSE [ok |-> FALSE, self |-> self, err |-> host.err]
    ELSE [ok |-> TRUE, self |-> [self EXCEPT ![key] = Some(value)]]

GeneralHeaders_insert(self, key, value) ==
    [ok |-> TRUE, self |-> [self EXCEPT ![key] = Some(value)]]

\* An insert that drops the headers of the Extension variant.
EntityHeaders_insert_DropExtension(self, key, value) ==
    IF key.variant = "Extension"
    THEN [ok |-> TRUE, self |-> self]
    ELSE IF key.variant = "ContentLength"
    THEN LET n == ParseUsize(value)
         IN  IF n.ok
             THEN [ok |-> TRUE,
                   self |-> [self EXCEPT !.fields[key.variant] = Some(n.val)]]
             ELSE [ok |-> FALSE, self |-> self, err |-> n.err]
    ELSE [ok |-> TRUE,
          self |-> [self EXCEPT !.fields[key.variant] = Some(value)]]

EntityHeaders_insert(self, key, value) ==
    IF key.variant = "Extension"
    THEN [ok |-> TRUE,
          self |-> [self EXCEPT !.extensions =
                        HashMap_insert(self.extensions, key.name, value)]]
    ELSE IF key.variant = "ContentLength"
    THEN LET n == ParseUsize(value)
         IN  IF n.ok
             THEN [ok |-> TRUE,
                   self |-> [self EXCEPT !.fields[key.variant] = Some(n.val)]]
             ELSE [ok |-> FALSE, self |-> self, err |-> n.err]
    ELSE [ok |-> TRUE,
          self |-> [self EXCEPT !.fields[key.variant] = Some(value)]]

---------------------------------------------------------------------------
(* Reading from the BufReader *)

Min(a, b) == IF a <= b THEN a ELSE b

\* The value of the i-th byte, or 0 when the byte is missing or ASCII: 0 is
\* never the value of a continuation byte.
ValueAt(bytes, i) ==
    IF i <= Len(bytes) /\ bytes[i] \in HighBytes THEN ByteValue(bytes[i]) ELSE 0

\* The number of bytes of the sequence a byte of value v1 >= 128 leads, 0
\* when it leads none (0x80-0xC1, 0xF5-0xFF).
Utf8Width(v1) ==
    IF v1 \in 194..223 THEN 2
    ELSE IF v1 \in 224..239 THEN 3
    ELSE IF v1 \in 240..244 THEN 4
    ELSE 0

\* The values the second byte may have after a leading byte of value v1.
Utf8Second(v1) ==
    IF v1 = 224 THEN 160..191
    ELSE IF v1 = 237 THEN 128..159
    ELSE IF v1 = 240 THEN 144..191
    ELSE IF v1 = 244 THEN 128..143
    ELSE 128..191

Utf8Char(n, c) == [valid |-> TRUE, len |-> n, char |-> c]

Utf8Error(n) == [valid |-> FALSE, len |-> n, char |-> ReplacementChar]

\* One step of the decoder on the byte b1 and the values v1 to v4 of the
\* four leading bytes.
Utf8Decode(b1, v1, v2, v3, v4) ==
    IF v1 = 0 THEN Utf8Char(1, b1)
    ELSE IF Utf8Width(v1) = 0 \/ v2 \notin Utf8Second(v1) THEN Utf8Error(1)
    ELSE IF Utf8Width(v1) = 2
    THEN Utf8Char(2, CharToken((v1 - 192) * 64 + (v2 - 128)))
    ELSE IF v3 \notin 128..191 THEN Utf8Error(2)
    ELSE IF Utf8Width(v1) = 3
    THEN Utf8Char(3, CharToken((v1 - 224) * 4096 + (v2 - 128) * 64
                               + (v3 - 128)))
    ELSE IF v4 \notin 128..191 THEN Utf8Error(3)
    ELSE Utf8Char(4, CharToken((v1 - 240) * 262144 + (v2 - 128) * 4096
                               + (v3 - 128) * 64 + (v4 - 128)))

\* The first step of a UTF-8 decoder on a non-empty sequence of bytes: the
\* character the leading bytes encode and the number of bytes it takes, or,
\* when they encode none, the length of the longest run of leading bytes
\* that starts a well-formed sequence (at least one byte).
Utf8Chunk(bytes) ==
    Utf8Decode(bytes[1], ValueAt(bytes, 1), ValueAt(bytes, 2),
               ValueAt(bytes, 3), ValueAt(bytes, 4))

\* Every byte is ASCII: the bytes are well-formed, and each is the
\* character it encodes.
IsAscii(bytes) == \A j \in 1..Len(bytes) : bytes[j] \notin HighBytes

\* The bytes are well-formed UTF-8.
RECURSIVE Utf8Valid(_)
Utf8Valid(bytes) ==
    \/ IsAscii(bytes)
    \/ LET c == Utf8Chunk(bytes)
       IN  c.valid /\ Utf8Valid(Tail_From(bytes, c.len + 1))

\* String::from_utf8_lossy: the characters the bytes encode, with one
\* U+FFFD in place of each ill-formed run of bytes.
RECURSIVE from_utf8_lossy(_)
from_utf8_lossy(bytes) ==
    IF IsAscii(bytes) THEN bytes
    ELSE LET c == Utf8Chunk(bytes)
         IN  <<c.char>> \o from_utf8_lossy(Tail_From(bytes, c.len + 1))

\* str::from_utf8: the characters the bytes encode, when they are
\* well-formed.
from_utf8(bytes) ==
    IF Utf8Valid(bytes) THEN [ok |-> TRUE, val |-> from_utf8_lossy(bytes)]
    ELSE [ok |-> FALSE, val |-> <<>>]

\* BufRead::read_line at offset p: the bytes up to and including the next
\* LF, or up to the end of the stream (none at the end), decoded.  The
\* bytes are consumed also when they are not valid UTF-8, which is an Err.
read_line(s, p) ==
    LET rest == Tail_From(s, p + 1)
        i == Find(rest, LF)
        n == IF i = 0 THEN Len(rest) ELSE i
        line == from_utf8(SubSeq(rest, 1, n))
    IN  IF ~line.ok
        THEN [ok |-> FALSE, line |-> <<>>, pos |-> p + n,
              err |-> "stream did not contain valid UTF-8"]
        ELSE [ok |-> TRUE, line |-> line.val, pos |-> p + n]

\* A body read without the take(content_length): everything up to the end of
\* the stream.
parse_body_from_reader_ReadToEnd(content_length, s, p) ==
    [ok |-> TRUE, body |-> from_utf8_lossy(SubSeq(s, p + 1, Len(s))),
     pos |-> Len(s)]

\* reader.take(content_length).read_to_end(): at most content_length bytes,
\* fewer when the stream ends first.
parse_body_from_reader(content_length, s, p) ==
    LET n == Min(content_length, Len(s) - p)
    IN  [ok |-> TRUE, body |-> from_utf8_lossy(SubSeq(s, p + 1, p + n)),
         pos |-> p + n]

\* One non-empty trimmed line handled by the loop body of
\* parse_headers_from_reader, given the three containers.
HeaderLine(rh, gh, eh, header) ==
    LET values == SplitN2(header, ":")
        key == values[1]
        value == Trim(values[2])
        rheader == RequestHeader_from(key)
        gheader == GeneralHeader_from(key)
        eheader == EntityHeader_from(key)
        same == [rh |-> rh, gh |-> gh, eh |-> eh]
    IN  IF Len(values) # 2
        THEN [outcome |-> "err", class |-> "none", to |-> same,
              err |-> "Expecting 'key: value' in header"]
        ELSE IF rheader.some
        THEN LET r == RequestHeaders_insert(rh, rheader.val, value)
             IN  IF r.ok
                 THEN [outcome |-> "ok", class |-> "request",
                       to |-> [same EXCEPT !.rh = r.self], err |-> ""]
                 ELSE [outcome |-> "err", class |-> "request",
                       to |-> [same EXCEPT !.rh = r.self], err |-> r.err]
        ELSE IF gheader.some
        THEN LET r == GeneralHeaders_insert(gh, gheader.val, value)
             IN  [outcome |-> "ok", class |-> "general",
                  to |-> [same EXCEPT !.gh = r.self], err |-> ""]
        ELSE IF eheader.some
        THEN LET r == EntityHeaders_insert(eh, eheader.val, value)
             IN  IF r.ok
                 THEN [outcome |-> "ok", class |-> "entity",
                       to |-> [same EXCEPT !.eh = r.self], err |-> ""]
                 ELSE [outcome |-> "err", class |-> "entity",
                       to |-> [same EXCEPT !.eh = r.self], err |-> r.err]
        ELSE [outcome |-> "panic", class |-> "none", to |-> same,
              err |-> "Entity header extension should catch unkown headers"]

\* One entry of the history of reads.
ReadEvent(kind, from, to, text, outcome, class) ==
    [kind |-> kind, from |-> from, to |-> to, text |-> text,
     outcome |-> outcome, class |-> class]

---------------------------------------------------------------------------
(* parse_http_request, one action per read *)

\* A request-line reader that skips empty lines before the request line.
ParseRequestLineFromReader_SkipBlank ==
    /\ pc = "AwaitRequestLine"
    /\ LET r == read_line(stream, pos)
           text == IF r.ok THEN Trim(r.line) ELSE <<>>
           blank == r.ok /\ text = <<>> /\ r.pos > pos
           parsed == IF r.ok THEN parse_request_line(text) ELSE Err(r.err)
       IN  /\ pos' = r.pos
           /\ reads' = Append(reads,
                  ReadEvent("request_line", pos, r.pos, text,
                            IF parsed.ok \/ blank THEN "ok" ELSE "err",
                            "none"))
           /\ IF blank
              THEN /\ request_line' = None
                   /\ pc' = "AwaitRequestLine"
                   /\ result' = None
              ELSE IF parsed.ok
              THEN /\ request_line' = Some(parsed.val)
                   /\ pc' = "AwaitHeaders"
                   /\ result' = None
              ELSE /\ request_line' = None
                   /\ pc' = "Failed"
                   /\ result' = Some(Err(parsed.err))
    /\ UNCHANGED <<stream, request_headers, general_headers, entity_headers,
                   fn_in, fn_out, elemsVars>>

\* parse_request_line_from_reader, and the `?` on it in parse_http_request.
ParseRequestLineFromReader ==
    /\ pc = "AwaitRequestLine"
    /\ LET r == read_line(stream, pos)
           text == IF r.ok THEN Trim(r.line) ELSE <<>>
           parsed == IF r.ok THEN parse_request_line(text) ELSE Err(r.err)
       IN  /\ pos' = r.pos
           /\ reads' = Append(reads,
                  ReadEvent("request_line", pos, r.pos, text,
                            IF parsed.ok THEN "ok" ELSE "err", "none"))
           /\ IF parsed.ok
              THEN /\ request_line' = Some(parsed.val)
                   /\ pc' = "AwaitHeaders"
                   /\ result' = None
              ELSE /\ request_line' = None
                   /\ pc' = "Failed"
                   /\ result' = Some(Err(parsed.err))
    /\ UNCHANGED <<stream, request_headers, general_headers, entity_headers,
                   fn_in, fn_out, elemsVars>>

\* A header loop that skips empty lines and stops at the end of the stream
\* only.
ParseHeadersFromReader_SkipBlank ==
    /\ pc = "AwaitHeaders"
    /\ LET r == read_line(stream, pos)
           header == IF r.ok THEN Trim(r.line) ELSE <<>>
           h == HeaderLine(request_headers, general_headers, entity_headers,
                           header)
       IN  /\ pos' = r.pos
           /\ IF ~r.ok
              THEN /\ pc' = "Failed"
                   /\ result' = Some(Err(r.err))
                   /\ reads' = Append(reads,
                          ReadEvent("header", pos, r.pos, header, "err", "none"))
                   /\ UNCHANGED <<request_headers, general_headers,
                                  entity_headers>>
              ELSE IF header = <<>>
              THEN /\ pc' = IF r.pos > pos THEN "AwaitHeaders" ELSE "MaybeBody"
                   /\ result' = None
                   /\ reads' = Append(reads,
                          ReadEvent("header", pos, r.pos, header, "break", "none"))
                   /\ UNCHANGED <<request_headers, general_headers,
                                  entity_headers>>
              ELSE /\ pc' = CASE h.outcome = "ok" -> "AwaitHeaders"
                              [] h.outcome = "err" -> "Failed"
                              [] h.outcome = "panic" -> "Panicked"
                   /\ result' = IF h.outcome = "err"
                                THEN Some(Err(h.err)) ELSE None
                   /\ reads' = Append(reads,
                          ReadEvent("header", pos, r.pos, header, h.outcome,
                                    h.class))
                   /\ request_headers' = h.to.rh
                   /\ general_headers' = h.to.gh
                   /\ entity_headers' = h.to.eh
    /\ UNCHANGED <<stream, request_line, fn_in, fn_out, elemsVars>>

\* A header loop for which the end of the stream before the empty line is
\* an error.
ParseHeadersFromReader_EofIsError ==
    /\ pc = "AwaitHeaders"
    /\ LET r == read_line(stream, pos)
           header == IF r.ok THEN Trim(r.line) ELSE <<>>
           h == HeaderLine(request_headers, general_headers, entity_headers,
                           header)
       IN  /\ pos' = r.pos
           /\ IF ~r.ok \/ r.pos = pos
              THEN /\ pc' = "Failed"
                   /\ result' = Some(Err(IF r.ok THEN "UnexpectedEof"
                                                ELSE r.err))
                   /\ reads' = Append(reads,
                          ReadEvent("header", pos, r.pos, header, "err", "none"))
                   /\ UNCHANGED <<request_headers, general_headers,
                                  entity_headers>>
              ELSE IF header = <<>>
              THEN /\ pc' = "MaybeBody"
                   /\ result' = None
                   /\ reads' = Append(reads,
                          ReadEvent("header", pos, r.pos, header, "break", "none"))
                   /\ UNCHANGED <<request_headers, general_headers,
                                  entity_headers>>
              ELSE /\ pc' = CASE h.outcome = "ok" -> "AwaitHeaders"
                              [] h.outcome = "err" -> "Failed"
                              [] h.outcome = "panic" -> "Panicked"
                   /\ result' = IF h.outcome = "err"
                                THEN Some(Err(h.err)) ELSE None
                   /\ reads' = Append(reads,
                          ReadEvent("header", pos, r.pos, header, h.outcome,
                                    h.class))
                   /\ request_headers' = h.to.rh
                   /\ general_headers' = h.to.gh
                   /\ entity_headers' = h.to.eh
    /\ UNCHANGED <<stream, request_line, fn_in, fn_out, elemsVars>>

\* A header loop that, finding the stream at its end before the empty line,
\* rewinds the reader and parses the request again from its start.
ParseHeadersFromReader_RestartAtEof ==
    /\ pc = "AwaitHeaders"
    /\ LET r == read_line(stream, pos)
           header == IF r.ok THEN Trim(r.line) ELSE <<>>
           h == HeaderLine(request_headers, general_headers, entity_headers,
                           header)
       IN  /\ pos' = IF r.ok /\ r.pos = pos THEN 0 ELSE r.pos
           /\ request_line' = IF r.ok /\ r.pos = pos
                              THEN None ELSE request_line
           /\ IF r.ok /\ r.pos = pos
              THEN /\ pc' = "AwaitRequestLine"
                   /\ result' = None
                   /\ reads' = <<>>
                   /\ request_headers' = RequestHeaders_new
                   /\ general_headers' = GeneralHeaders_new
                   /\ entity_headers' = EntityHeaders_new
              ELSE IF ~r.ok
              THEN /\ pc' = "Failed"
                   /\ result' = Some(Err(r.err))
                   /\ reads' = Append(reads,
                          ReadEvent("header", pos, r.pos, header, "err", "none"))
                   /\ UNCHANGED <<request_headers, general_headers,
                                  entity_headers>>
              ELSE IF header = <<>>
              THEN /\ pc' = "MaybeBody"
                   /\ result' = None
                   /\ reads' = Append(reads,
                          ReadEvent("header", pos, r.pos, header, "break", "none"))
                   /\ UNCHANGED <<request_headers, general_headers,
                                  entity_headers>>
              ELSE /\ pc' = CASE h.outcome = "ok" -> "AwaitHeaders"
                              [] h.outcome = "err" -> "Failed"
                              [] h.outcome = "panic" -> "Panicked"
                   /\ result' = IF h.outcome = "err"
                                THEN Some(Err(h.err)) ELSE None
                   /\ reads' = Append(reads,
                          ReadEvent("header", pos, r.pos, header, h.outcome,
                                    h.class))
                   /\ request_headers' = h.to.rh
                   /\ general_headers' = h.to.gh
                   /\ entity_headers' = h.to.eh
    /\ UNCHANGED <<stream, fn_in, fn_out, elemsVars>>

\* One iteration of the loop of parse_headers_from_reader.
ParseHeadersFromReader ==
    /\ pc = "AwaitHeaders"
    /\ LET r == read_line(stream, pos)
           header == IF r.ok THEN Trim(r.line) ELSE <<>>
           h == HeaderLine(request_headers, general_headers, entity_headers,
                           header)
       IN  /\ pos' = r.pos
           /\ IF ~r.ok
              THEN /\ pc' = "Failed"
                   /\ result' = Some(Err(r.err))
                   /\ reads' = Append(reads,
                          ReadEvent("header", pos, r.pos, header, "err", "none"))
                   /\ UNCHANGED <<request_headers, general_headers,
                                  entity_headers>>
              ELSE IF header = <<>>
              THEN /\ pc' = "MaybeBody"
                   /\ result' = None
                   /\ reads' = Append(reads,
                          ReadEvent("header", pos, r.pos, header, "break", "none"))
                   /\ UNCHANGED <<request_headers, general_headers,
                                  entity_headers>>
              ELSE /\ pc' = CASE h.outcome = "ok" -> "AwaitHeaders"
                              [] h.outcome = "err" -> "Failed"
                              [] h.outcome = "panic" -> "Panicked"
                   /\ result' = IF h.outcome = "err"
                                THEN Some(Err(h.err)) ELSE None
                   /\ reads' = Append(reads,
                          ReadEvent("header", pos, r.pos, header, h.outcome,
                                    h.class))
                   /\ request_headers' = h.to.rh
                   /\ general_headers' = h.to.gh
                   /\ entity_headers' = h.to.eh
    /\ UNCHANGED <<stream, request_line, fn_in, fn_out, elemsVars>>

\* The rest of parse_http_request: the body, read when the Entity container
\* has a content length, and the returned HttpRequest.
ParseBodyAndReturn ==
    /\ pc = "MaybeBody"
    /\ LET content_length == entity_headers.fields["ContentLength"]
           b == parse_body_from_reader(content_length.val, stream, pos)
           body == IF content_length.some THEN Some(b.body) ELSE None
       IN  /\ pos' = IF content_length.some THEN b.pos ELSE pos
           /\ reads' = IF content_length.some
                       THEN Append(reads,
                                ReadEvent("body", pos, b.pos, b.body,
                                          "ok", "none"))
                       ELSE reads
           /\ result' = Some(Ok([request_line |-> request_line.val,
                                 request_headers |-> request_headers,
                                 general_headers |-> general_headers,
                                 entity_headers |-> entity_headers,
                                 body |-> body]))
           /\ pc' = "Done"
    /\ UNCHANGED <<stream, request_line, request_headers, general_headers,
                   entity_headers, fn_in, fn_out, elemsVars>>

---------------------------------------------------------------------------
(* The inputs: streams built from request lines, header lines and bodies *)

\* "GET / HTTP/1.1", "POST /submit HTTP/1.1", "GET /" (two fields) and the
\* empty line.
RequestLines ==
    { <<"G", "E", "T", " ", "/", " ", "H", "T", "T", "P", "/", "1", ".", "1">>,
      <<"P", "O", "S", "T", " ", "/", "s", "u", "b", "m", "i", "t", " ", "H", "T", "T", "P", "/", "1", ".", "1">>,
      <<"G", "E", "T", " ", "/">>,
      <<>> }

\* Host with and without a port, with two colons and with a space before the
\* colon; Content-Length and ContentLength with a length, a zero and a
\* non-number; an unknown name with two values; a General name whose value
\* follows a no-break space (U+00A0, the bytes C2 A0); a Response name; a
\* line without a colon; a line holding an invalid UTF-8 byte;
\* ContentLength with a form feed before digits above usize::MAX that a
\* letter follows.
HeaderLines ==
    { <<"H", "o", "s", "t", ":", " ", "a", ".", "c", "o", "m">>,
      <<"H", "o", "s", "t", ":", " ", "b", ":", "8", "0", "8", "0">>,
      <<"H", "o", "s", "t", ":", " ", "a", ":", "b", ":", "c">>,
      <<"H", "o", "s", "t", " ", ":", " ", "c">>,
      <<"C", "o", "n", "t", "e", "n", "t", "-", "L", "e", "n", "g", "t", "h", ":", " ", "5">>,
      <<"C", "o", "n", "t", "e", "n", "t", "-", "L", "e", "n", "g", "t", "h", ":", " ", "a", "b", "c">>,
      <<"C", "o", "n", "t", "e", "n", "t", "L", "e", "n", "g", "t", "h", ":", " ", "5">>,
      <<"C", "o", "n", "t", "e", "n", "t", "L", "e", "n", "g", "t", "h", ":", " ", "0">>,
      <<"C", "o", "n", "t", "e", "n", "t", "L", "e", "n", "g", "t", "h", ":", " ", "a", "b", "c">>,
      <<"X", "-", "A", ":", " ", "v">>,
      <<"X", "-", "A", ":", " ", "w">>,
      <<"V", "i", "a", ":", "xC2", "xA0", "p">>,
      <<"S", "e", "r", "v", "e", "r", ":", " ", "s">>,
      <<"N", "o", "C", "o", "l", "o", "n">>,
      <<"X", "-", "B", ":", " ", BadByte>>,
      <<"C", "o", "n", "t", "e", "n", "t", "L", "e", "n", "g", "t", "h", ":", "\f",
        "1", "8", "4", "4", "6", "7", "4", "4", "0", "7", "3", "7", "0", "9", "5", "5", "1", "6", "1", "6", "x">> }

\* "", "hi", "hello!" and "h\xFFllo": shorter than, longer than and as long
\* as the declared length 5; and "abcd" with the two bytes of U+00A0, which
\* the declared length 5 cuts in the middle.
Bodies ==
    { <<>>,
      <<"h", "i">>,
      <<"h", "e", "l", "l", "o", "!">>,
      <<"h", BadByte, "l", "l", "o">>,
      <<"a", "b", "c", "d", "xC2", "xA0">> }

\* Bound on the number of header lines of a stream.
MaxHeaders == 2

CRLF == <<CR, LF>>

RECURSIVE SeqsUpTo(_, _)
SeqsUpTo(S, n) ==
    IF n = 0 THEN {<<>>}
    ELSE LET shorter == SeqsUpTo(S, n - 1)
         IN  shorter \cup {Append(q, x) : q \in {r \in shorter : Len(r) = n - 1}, x \in S}

RECURSIVE Concat(_)
Concat(ss) == IF ss = <<>> THEN <<>> ELSE Head(ss) \o Concat(Tail(ss))

\* What follows the header lines: nothing (the stream ends there), or the
\* empty line and a body.
Tails == {<<>>} \cup {CRLF \o b : b \in Bodies}

Wire(rl, hs, tail) ==
    rl \o CRLF \o Concat([i \in 1..Len(hs) |-> hs[i] \o CRLF]) \o tail

Streams ==
    {<<>>} \cup {Wire(rl, hs, tail) : rl \in RequestLines,
                                      hs \in SeqsUpTo(HeaderLines, MaxHeaders),
                                      tail \in Tails}

\* BufReaderExt::http_elems: the iterator before its first call.
http_elems_new == [content_length |-> 0, done |-> FALSE, first |-> TRUE]

Init ==
    /\ stream \in Streams
    /\ pos = 0
    /\ pc = "AwaitRequestLine"
    /\ request_line = None
    /\ request_headers = RequestHeaders_new
    /\ general_headers = GeneralHeaders_new
    /\ entity_headers = EntityHeaders_new
    /\ result = None
    /\ reads = <<>>
    /\ fn_in = <<>>
    /\ fn_out = None
    /\ http_elems = http_elems_new
    /\ calls = <<>>

Next ==
    \/ ParseRequestLineFromReader
    \/ ParseHeadersFromReader
    \/ ParseBodyAndReturn

Spec == Init /\ [][Next]_vars

\* parse_http_request is in one of the phases in which it has a step to
\* take.  Each action is guarded by its phase alone and is defined for every
\* state of its phase, and each changes pc or appends to reads, so that this
\* is ENABLED <<Next>>_vars; TLC finds no deadlock in a Running state.
Running == pc \in {"AwaitRequestLine", "AwaitHeaders", "MaybeBody"}

\* parse_http_request runs on a thread of its own and its reads do not
\* block: a step that can be taken is taken.  This is weak fairness of
\* Next, WF_vars(Next), written out by its definition with Running for the
\* enabledness of Next.
LiveSpec == Spec /\ ([]<>(~Running) \/ []<><<Next>>_vars)

---------------------------------------------------------------------------
(* The HttpElems iterator of main.rs and the loop that drives it *)

\* Host::from of main.rs.  The error for a bad port also quotes the port
\* text, which is left out here.
Host_from(host) ==
    LET parts == Split(host, ":")
    IN  IF Len(parts) > 2
        THEN Err("Expected hostname:port or hostname")
        ELSE IF Len(parts) = 2
        THEN LET p == ParseU32(parts[2])
             IN  IF p.ok
                 THEN Ok([hostname |-> parts[1], port |-> p.val])
                 ELSE Err("Failed to parse port")
        ELSE Ok([hostname |-> parts[1], port |-> 80])

\* Method::from of main.rs: the same tokens as MethodTable, and EXTENSION
\* for every other string.
Method_from(data) ==
    LET hits == {p \in MethodTable : p[1] = data}
    IN  IF hits # {}
        THEN [variant |-> (CHOOSE p \in hits : TRUE)[2]]
        ELSE [variant |-> "EXTENSION", token |-> data]

\* Header::from of main.rs
Header_from(key, value) ==
    IF key = <<"H", "o", "s", "t">>
    THEN LET host == Host_from(value)
         IN  IF host.ok
             THEN Ok([variant |-> "Host", host |-> host.val])
             ELSE Err(host.err)
    ELSE IF key = <<"U", "s", "e", "r", "-", "A", "g", "e", "n", "t">>
    THEN Ok([variant |-> "UserAgent", value |-> value])
    ELSE IF key = <<"A", "c", "c", "e", "p", "t">>
    THEN Ok([variant |-> "Accept", value |-> value])
    ELSE IF key = <<"C", "o", "n", "t", "e", "n", "t", "-", "T", "y", "p", "e">>
    THEN Ok([variant |-> "ContentType", value |-> value])
    ELSE IF key = <<"C", "o", "n", "t", "e", "n", "t", "-",
                    "L", "e", "n", "g", "t", "h">>
    THEN LET cl == ParseUsize(value)
         IN  IF cl.ok
             THEN Ok([variant |-> "ContentLength", len |-> cl.val])
             ELSE Err(cl.err)
    ELSE Ok([variant |-> "Other", key |-> key, value |-> value])

\* parse_request_line of main.rs: three fields, any method, version 1.1.
main_parse_request_line(value) ==
    LET values == Split(value, " ")
    IN  IF Len(values) # 3
        THEN Err("Expecting 3 values in request line: Method SP URI SP HTTP/Version")
        ELSE Ok([method |-> Method_from(values[1]), uri |-> values[2],
                 v_major |-> 1, v_minor |-> 1])

\* parse_header of main.rs
parse_header(header) ==
    LET parts == SplitN2(header, ":")
    IN  IF Len(parts) # 2
        THEN Err("Invalid header, expected a colon in header to deliminate key: value")
        ELSE Header_from(Trim(parts[1]), Trim(parts[2]))

\* The variants of HttpElem
HttpElem_RequestLine(rl) == [elem |-> "RequestLine", request_line |-> rl]

HttpElem_Header(header) == [elem |-> "Header", header |-> header]

HttpElem_Body(body) == [elem |-> "Body", body |-> body]

\* The outcome of a call on the iterator: the iterator after the call, the
\* offset of its reader, and the item returned.
Yield(self, p, item) == [self |-> self, pos |-> p, item |-> item]

\* HttpElems::read_body_if_exists with the reader at offset p
read_body_if_exists(self, s, p) ==
    IF self.content_length = 0
    THEN Yield([self EXCEPT !.done = TRUE], p, None)
    ELSE LET n == Min(self.content_length, Len(s) - p)
         IN  Yield([self EXCEPT !.done = TRUE], p + n,
                   Some(Ok(HttpElem_Body(
                       from_utf8_lossy(SubSeq(s, p + 1, p + n))))))

\* Iterator::next of HttpElems with the reader at offset p
next(self, s, p) ==
    IF self.done
    THEN Yield(self, p, None)
    ELSE LET r == read_line(s, p)
             buf == TrimEnd(r.line)
         IN  IF ~r.ok
             THEN Yield(self, r.pos, Some(Err(r.err)))
             ELSE IF r.pos = p
             THEN Yield(self, p, None)
             ELSE IF buf = <<>>
             THEN read_body_if_exists(self, s, r.pos)
             ELSE IF self.first
             THEN LET rl == main_parse_request_line(buf)
                  IN  Yield([self EXCEPT !.first = FALSE], r.pos,
                            Some(IF rl.ok
                                 THEN Ok(HttpElem_RequestLine(rl.val))
                                 ELSE Err(rl.err)))
             ELSE LET header == parse_header(buf)
                  IN  IF ~header.ok
                      THEN Yield(self, r.pos, Some(Err(header.err)))
                      ELSE IF header.val.variant = "ContentLength"
                      THEN Yield([self EXCEPT !.content_length = header.val.len],
                                 r.pos, Some(Ok(HttpElem_Header(header.val))))
                      ELSE Yield(self, r.pos,
                                 Some(Ok(HttpElem_Header(header.val))))

\* One iteration of the for loop of handle_connection: it calls next, prints
\* the element or the error it gets, and ends when it gets None.
HandleConnection ==
    /\ pc = "Iterating"
    /\ LET y == next(http_elems, stream, pos)
       IN  /\ http_elems' = y.self
           /\ pos' = y.pos
           /\ calls' = Append(calls,
                  [from |-> pos, to |-> y.pos, item |-> y.item])
           /\ pc' = IF y.item.some THEN "Iterating" ELSE "LoopEnded"
    /\ UNCHANGED <<stream, request_line, request_headers, general_headers,
                   entity_headers, result, reads, fn_in, fn_out>>

\* handle_connection on a stream: a BufReader at offset 0 and a new iterator.
InitElems ==
    /\ stream \in Streams
    /\ pos = 0
    /\ pc = "Iterating"
    /\ http_elems = http_elems_new
    /\ calls = <<>>
    /\ request_line = None
    /\ request_headers = RequestHeaders_new
    /\ general_headers = GeneralHeaders_new
    /\ entity_headers = EntityHeaders_new
    /\ result = None
    /\ reads = <<>>
    /\ fn_in = <<>>
    /\ fn_out = None

SpecElems == InitElems /\ [][HandleConnection]_vars

---------------------------------------------------------------------------
(* The pure parsing functions, each applied to inputs from a bounded set *)

\* Bounds on the lengths of the enumerated inputs.
MaxMethodLen == 3

MaxVersionTail == 4

MaxHostLen == 4

MaxFields == 4

\* The seven standard tokens of HTTP/1.1, OPTION, and some others.
MethodTokens ==
    { <<"O", "P", "T", "I", "O", "N", "S">>,
      <<"O", "P", "T", "I", "O", "N">>,
      <<"G", "E", "T">>,
      <<"P", "O", "S", "T">>,
      <<"P", "U", "T">>,
      <<"D", "E", "L", "E", "T", "E">>,
      <<"T", "R", "A", "C", "E">>,
      <<"C", "O", "N", "N", "E", "C", "T">>,
      <<"g", "e", "t">>,
      <<"P", "A", "T", "C", "H">>,
      <<"G", "E", "T", "1">>,
      <<"G", "-", "T">>,
      <<"G", "E", "T", "X">> }

\* Field 0 of a trimmed line with three fields: never empty.
MethodInputs ==
    (MethodTokens \cup SeqsUpTo({"G", "E", "T", "e", "1", "-"}, MaxMethodLen))
    \ {<<>>}

VersionPrefixes ==
    { <<"H", "T", "T", "P", "/">>,
      <<"H", "T", "T", "P">>,
      <<"h", "t", "t", "p", "/">>,
      <<"H", "T", "T", "P", "S", "/">>,
      <<"/">>,
      <<>> }

\* Leading zeros, values above u32::MAX, a minus sign, a second slash,
\* digits above u32::MAX that a letter follows.
VersionExtras ==
    { <<"H", "T", "T", "P", "/", "0", "1", ".", "1", "0">>,
      <<"H", "T", "T", "P", "/", "4", "2", "9", "4", "9", "6", "7", "2", "9", "6", ".", "1">>,
      <<"H", "T", "T", "P", "/", "1", ".", "4", "2", "9", "4", "9", "6", "7", "2", "9", "6">>,
      <<"H", "T", "T", "P", "/", "-", "1", ".", "1">>,
      <<"H", "T", "T", "P", "/", "1", ".", "1", "/">>,
      <<"H", "T", "T", "P", "/", "4", "2", "9", "4", "9", "6", "7", "2", "9", "6", "x", ".", "1">> }

\* Field 2 of a trimmed line with three fields: never empty.
VersionInputs ==
    (VersionExtras \cup
     {p \o q : p \in VersionPrefixes,
               q \in SeqsUpTo({"1", ".", "/", "+", "x"}, MaxVersionTail)})
    \ {<<>>}

\* A full name with a port, a port above u32::MAX, a minus sign, a space,
\* a leading zero, a port above 65535, digits above u32::MAX that a letter
\* follows.
HostExtras ==
    { <<"e", "x", "a", "m", "p", "l", "e", ".", "c", "o", "m", ":", "8", "0", "8", "0">>,
      <<"a", ".", "c", "o", "m">>,
      <<"a", ":", "4", "2", "9", "4", "9", "6", "7", "2", "9", "6">>,
      <<"a", ":", "-", "1">>,
      <<"a", ":", " ", "8", "0">>,
      <<"a", ":", "0", "8", "0">>,
      <<"a", ":", "6", "5", "5", "3", "6">>,
      <<"a", ":", "4", "2", "9", "4", "9", "6", "7", "2", "9", "6", "x">> }

HostInputs ==
    HostExtras \cup SeqsUpTo({"a", ":", "8", "0", "+"}, MaxHostLen)

RequestLineFields ==
    { <<"G", "E", "T">>,
      <<"/", "i", "n", "d", "e", "x", ".", "h", "t", "m", "l">>,
      <<"H", "T", "T", "P", "/", "1", ".", "1">>,
      <<>>,
      <<"X">>,
      <<"G", "-", "T">>,
      <<"H", "T", "T", "P", "/", "1">>,
      <<"/">> }

RECURSIVE JoinWith(_, _)
JoinWith(fields, c) ==
    IF fields = <<>> THEN <<>>
    ELSE IF Len(fields) = 1 THEN fields[1]
    ELSE fields[1] \o <<c>> \o JoinWith(Tail(fields), c)

\* The fields joined by single spaces, an empty field giving a doubled
\* space.  parse_request_line_from_reader trims the line first, so no input
\* starts or ends with a space.
RequestLineInputs ==
    {s \in {JoinWith(fs, " ") : fs \in SeqsUpTo(RequestLineFields, MaxFields)} :
        Trim(s) = s}

InitFn(inputs) ==
    /\ fn_in \in inputs
    /\ fn_out = None
    /\ stream = <<>>
    /\ pos = 0
    /\ pc = "Function"
    /\ request_line = None
    /\ request_headers = RequestHeaders_new
    /\ general_headers = GeneralHeaders_new
    /\ entity_headers = EntityHeaders_new
    /\ result = None
    /\ reads = <<>>
    /\ http_elems = http_elems_new
    /\ calls = <<>>

Call_parse_method_from_wire ==
    /\ fn_out = None
    /\ fn_out' = Some(parse_method_from_wire(fn_in))
    /\ UNCHANGED <<parserVars, fn_in>>

Call_parse_version_numbers ==
    /\ fn_out = None
    /\ fn_out' = Some(parse_version_numbers(fn_in))
    /\ UNCHANGED <<parserVars, fn_in>>

Call_parse_host_from_wire ==
    /\ fn_out = None
    /\ fn_out' = Some(parse_host_from_wire(fn_in))
    /\ UNCHANGED <<parserVars, fn_in>>

Call_parse_request_line ==
    /\ fn_out = None
    /\ fn_out' = Some(parse_request_line(fn_in))
    /\ UNCHANGED <<parserVars, fn_in>>

InitMethod == InitFn(MethodInputs)

InitVersion == InitFn(VersionInputs)

InitHost == InitFn(HostInputs)

InitRequestLine == InitFn(RequestLineInputs)

SpecMethod == InitMethod /\ [][Call_parse_method_from_wire]_vars

SpecVersion == InitVersion /\ [][Call_parse_version_numbers]_vars

SpecHost == InitHost /\ [][Call_parse_host_from_wire]_vars

SpecRequestLine == InitRequestLine /\ [][Call_parse_request_line]_vars

---------------------------------------------------------------------------
(* Vocabulary of the properties, defined on the text of the lines alone *)

Count(s, c) == Cardinality({i \in 1..Len(s) : s[i] = c})

\* Position of the k-th occurrence of c in s, 0 for k = 0, Len(s) + 1 when
\* s has fewer than k occurrences.
NthPos(s, c, k) ==
    IF k = 0 THEN 0
    ELSE IF Count(s, c) < k THEN Len(s) + 1
    ELSE CHOOSE i \in 1..Len(s) :
            s[i] = c /\ Cardinality({j \in 1..i : s[j] = c}) = k

\* The k-th field of s when fields are separated by single occurrences of c.
Field(s, c, k) == SubSeq(s, NthPos(s, c, k - 1) + 1, NthPos(s, c, k) - 1)

\* A decimal numeral as str::parse reads it: an optional "+" and one or
\* more ASCII digits.
NumeralDigits(s) == IF s # <<>> /\ s[1] = "+" THEN Tail(s) ELSE s

IsNumeral(s) ==
    /\ NumeralDigits(s) # <<>>
    /\ \A i \in 1..Len(NumeralDigits(s)) : NumeralDigits(s)[i] \in Digits

FitsU32(s) == NumeralLeq(StripZeros(NumeralDigits(s)), U32Max)

ValueOfNumeral(s) == NumeralValue(StripZeros(NumeralDigits(s)))

\* Name and value of a header line: what precedes its first colon, and
\* what follows it without the surrounding whitespace.
HasColon(text) == Count(text, ":") > 0

NameOf(text) == Field(text, ":", 1)

ValueOf(text) == Trim(Tail_From(text, NthPos(text, ":", 1) + 1))

WireNames(table) == {p[1] : p \in table}

HeaderReads == {i \in 1..Len(reads) : reads[i].kind = "header"}

\* The header lines that were inserted into a container.
StoredReads == {i \in HeaderReads : reads[i].outcome = "ok"}

Returned == result.some

ReturnedRequest == result.some /\ result.val.ok

ContentLengthName ==
    <<"C", "o", "n", "t", "e", "n", "t", "-", "L", "e", "n", "g", "t", "h">>

IsContentLengthLine(text) ==
    HasColon(text) /\ NameOf(text) = ContentLengthName

\* The read that found the empty line ending the headers.
BlankRead == CHOOSE i \in HeaderReads : reads[i].outcome = "break"

---------------------------------------------------------------------------
(* Properties of parse_http_request, checked under Spec *)

\* The declared length of a Content-Length line whose value is a numeral.
DeclaredLength(i) == ValueOfNumeral(ValueOf(reads[i].text))

\* C1: when a valid request line is followed by header lines that include
\* `Content-Length: N` with N > 0, then by an empty line and by at least N
\* bytes, the returned request has a body, and the body is the first N bytes
\* after the empty line.
C1_ContentLengthBody ==
    pc = "Done" =>
        \A i \in StoredReads :
            LET blank == reads[BlankRead]
            IN  (/\ IsContentLengthLine(reads[i].text)
                 /\ IsNumeral(ValueOf(reads[i].text))
                 /\ DeclaredLength(i) > 0
                 /\ \A k \in StoredReads :
                        k > i => ~IsContentLengthLine(reads[k].text)
                 /\ blank.to > blank.from
                 /\ Len(stream) - blank.to >= DeclaredLength(i)
                 /\ \A j \in 1..Len(stream) : stream[j] \notin HighBytes)
                => /\ ReturnedRequest
                   /\ result.val.val.body =
                          Some(SubSeq(stream, blank.to + 1,
                                      blank.to + DeclaredLength(i)))

\* C2: a returned request whose Entity container holds the content length 0
\* has no body (None, not the empty string).
C2_ZeroLengthNoBody ==
    (/\ ReturnedRequest
     /\ result.val.val.entity_headers.fields["ContentLength"] = Some(0))
    => result.val.val.body = None

\* C3: the parse of a stream that holds a header line `Content-Length: v`
\* whose v is not a non-negative integer returns an error, and never a
\* request.
C3_BadContentLengthFails ==
    (\E i \in HeaderReads :
        /\ IsContentLengthLine(reads[i].text)
        /\ ~IsNumeral(ValueOf(reads[i].text)))
    => /\ pc # "Done"
       /\ Returned => ~result.val.ok

HostName == <<"H", "o", "s", "t">>

\* A Host value as parse_host_from_wire takes it: at most one colon, and
\* after the colon a numeral that fits a u32.
ValidHostValue(v) ==
    /\ Count(v, ":") <= 1
    /\ Count(v, ":") = 1 =>
           /\ IsNumeral(Field(v, ":", 2))
           /\ FitsU32(Field(v, ":", 2))

ValidLengthValue(v) ==
    IsNumeral(v) /\ NumeralLeq(StripZeros(NumeralDigits(v)), UsizeMax)

\* The read i took malformed input, the content length being the header of
\* the given name: a request line that does not parse, bytes that are not
\* UTF-8, a header line without a colon, a Host or content-length value that
\* does not parse.
Malformed(i, lengthName) ==
    LET r == reads[i]
    IN  \/ ~Utf8Valid(SubSeq(stream, r.from + 1, r.to))
        \/ r.kind = "request_line" /\ ~parse_request_line(r.text).ok
        \/ /\ r.kind = "header"
           /\ r.text # <<>>
           /\ \/ ~HasColon(r.text)
              \/ NameOf(r.text) = HostName /\ ~ValidHostValue(ValueOf(r.text))
              \/ /\ NameOf(r.text) = lengthName
                 /\ ~ValidLengthValue(ValueOf(r.text))

\* The read i was the last one and ended the parse with an error.
EndedWithError(i) ==
    /\ i = Len(reads)
    /\ pc = "Failed"
    /\ Returned
    /\ ~result.val.ok
    /\ pos = reads[i].to

\* C4: the first malformed input (bad request line, header line without a
\* colon, bad Host value, bad Content-Length value, read failure) ends the
\* parse with an error: no request is returned and nothing is read from the
\* stream after the failing read.
C4_FirstErrorEndsParse ==
    \A i \in 1..Len(reads) :
        (reads[i].kind # "body" /\ Malformed(i, ContentLengthName))
        => EndedWithError(i)

\* The same for the inputs the code does reject, the content length being
\* the header the Entity table knows, `ContentLength`.
FailFast ==
    \A i \in 1..Len(reads) :
        (reads[i].kind # "body"
         /\ Malformed(i, <<"C", "o", "n", "t", "e", "n", "t",
                           "L", "e", "n", "g", "t", "h">>))
        => EndedWithError(i)

\* The container the classification order gives a name: the Request table
\* first, then the General table, then the Entity table and its catch-all.
ClassOf(name) ==
    IF name \in WireNames(RequestHeaderTable) THEN "request"
    ELSE IF name \in WireNames(GeneralHeaderTable) THEN "general"
    ELSE "entity"

\* C5: every header line with a colon is classified into exactly one of the
\* Request, General and Entity containers, tried in that order, and the
\* panic branch after the Entity lookup is never taken.
C5_ClassificationTotal ==
    /\ pc # "Panicked"
    /\ \A i \in HeaderReads :
           (reads[i].text # <<>> /\ HasColon(reads[i].text))
           => /\ reads[i].outcome \in {"ok", "err"}
              /\ reads[i].class = ClassOf(NameOf(reads[i].text))

\* A header line of a name that no table knows has gone to the Entity
\* container.
C5_Witness ==
    \E i \in StoredReads :
        /\ reads[i].class = "entity"
        /\ NameOf(reads[i].text) \notin
               WireNames(RequestHeaderTable) \cup WireNames(GeneralHeaderTable)
               \cup WireNames(EntityHeaderTable)

\* What the containers hold for a header name.
SlotOf(rh, gh, eh, name) ==
    IF name \in WireNames(RequestHeaderTable)
    THEN rh[Lookup(RequestHeaderTable, name).val]
    ELSE IF name \in WireNames(GeneralHeaderTable)
    THEN gh[Lookup(GeneralHeaderTable, name).val]
    ELSE IF name \in WireNames(EntityHeaderTable)
    THEN eh.fields[Lookup(EntityHeaderTable, name).val]
    ELSE IF name \in DOMAIN eh.extensions
    THEN Some(eh.extensions[name])
    ELSE None

EntityLengthName ==
    <<"C", "o", "n", "t", "e", "n", "t", "L", "e", "n", "g", "t", "h">>

ValidValue(name, v) ==
    /\ name = HostName => ValidHostValue(v)
    /\ name = EntityLengthName => ValidLengthValue(v)

\* What a slot holds after a valid value was stored under a name.
StoredForm(name, v) ==
    IF name = HostName
    THEN Some([hostname |-> Field(v, ":", 1),
               port |-> IF Count(v, ":") = 1
                        THEN ValueOfNumeral(Field(v, ":", 2)) ELSE 80])
    ELSE IF name = EntityLengthName THEN Some(ValueOfNumeral(v))
    ELSE Some(v)

\* The header line read i repeats, with another value that is valid, the
\* name of a line stored before it.
Repeats(i) ==
    /\ reads[i].text # <<>>
    /\ HasColon(reads[i].text)
    /\ ValidValue(NameOf(reads[i].text), ValueOf(reads[i].text))
    /\ \E j \in StoredReads :
           /\ j < i
           /\ NameOf(reads[j].text) = NameOf(reads[i].text)
           /\ ValueOf(reads[j].text) # ValueOf(reads[i].text)

LastOfItsName(i) ==
    \A k \in StoredReads : k > i => NameOf(reads[k].text) # NameOf(reads[i].text)

\* C6: a header line that repeats the name of an earlier line with another
\* valid value raises no error, and the container holds for that name the
\* value of the last occurrence only, in a typed slot as in the extension
\* bucket; so does the returned request.
C6_LastOccurrenceWins ==
    \A i \in HeaderReads :
        Repeats(i) =>
            LET name == NameOf(reads[i].text)
                want == StoredForm(name, ValueOf(reads[i].text))
            IN  /\ reads[i].outcome = "ok"
                /\ LastOfItsName(i) =>
                       /\ SlotOf(request_headers, general_headers,
                                 entity_headers, name) = want
                       /\ ReturnedRequest =>
                              SlotOf(result.val.val.request_headers,
                                     result.val.val.general_headers,
                                     result.val.val.entity_headers, name) = want

\* A request was returned whose header lines gave one name, unknown to the
\* tables, two values.
C6_Witness ==
    /\ pc = "Done"
    /\ ReturnedRequest
    /\ \E i \in HeaderReads :
           /\ Repeats(i)
           /\ LastOfItsName(i)
           /\ ClassOf(NameOf(reads[i].text)) = "entity"
           /\ NameOf(reads[i].text) \notin WireNames(EntityHeaderTable)

\* The same for a typed slot: Host given twice.
C6_TypedSlotReached ==
    /\ pc = "Done"
    /\ \E i \in HeaderReads :
           Repeats(i) /\ LastOfItsName(i) /\ NameOf(reads[i].text) = HostName

---------------------------------------------------------------------------
(* Properties of the pure parsing functions *)

\* The seven method tokens of HTTP/1.1 and the variant of Method for each.
StandardMethods ==
    { <<<<"O", "P", "T", "I", "O", "N", "S">>, "OPTION">>,
      <<<<"G", "E", "T">>, "GET">>,
      <<<<"P", "O", "S", "T">>, "POST">>,
      <<<<"P", "U", "T">>, "PUT">>,
      <<<<"D", "E", "L", "E", "T", "E">>, "DELETE">>,
      <<<<"T", "R", "A", "C", "E">>, "TRACE">>,
      <<<<"C", "O", "N", "N", "E", "C", "T">>, "CONNECT">> }

AllAlphabetic(s) == \A i \in 1..Len(s) : s[i] \in AsciiAlphabetic

\* C7: parse_method_from_wire gives the standard variant for each of
\* OPTIONS, GET, POST, PUT, DELETE, TRACE, CONNECT, Extension(token) for any
\* other token of ASCII letters only, and an error for any other token.
C7_MethodParse ==
    fn_out.some =>
        /\ \A p \in StandardMethods :
               fn_in = p[1] => fn_out.val = Ok([variant |-> p[2]])
        /\ (fn_in \notin WireNames(StandardMethods) /\ AllAlphabetic(fn_in))
           => fn_out.val = Ok([variant |-> "EXTENSION", token |-> fn_in])
        /\ (fn_in \notin WireNames(StandardMethods) /\ ~AllAlphabetic(fn_in))
           => ~fn_out.val.ok

HasDoubledSpace(s) == \E i \in 1..(Len(s) - 1) : s[i] = " " /\ s[i + 1] = " "

\* The request line that the three fields of a line give, when the method
\* and the version parse.
FieldsParse(s) ==
    /\ parse_method_from_wire(Field(s, " ", 1)).ok
    /\ parse_version_numbers(Field(s, " ", 3)).ok

FromFields(s) ==
    [method |-> parse_method_from_wire(Field(s, " ", 1)).val,
     uri |-> Field(s, " ", 2),
     v_major |-> parse_version_numbers(Field(s, " ", 3)).val[1],
     v_minor |-> parse_version_numbers(Field(s, " ", 3)).val[2]]

\* C8 as stated: parse_request_line fails unless the line has exactly 3
\* fields between single spaces, fails on every line with a doubled space,
\* and on success takes method, uri and version from fields 0, 1 and 2 with
\* the uri unchanged.
C8_Original ==
    fn_out.some =>
        /\ Count(fn_in, " ") # 2 => ~fn_out.val.ok
        /\ HasDoubledSpace(fn_in) => ~fn_out.val.ok
        /\ fn_out.val.ok => fn_out.val.val = FromFields(fn_in)

\* C8 (amended): parse_request_line fails unless the line has exactly 3
\* fields, a field being what stands between two single spaces and possibly
\* empty; a line with exactly two spaces is accepted when its first field is
\* a method and its third a version, also when the two spaces are adjacent
\* (the uri is then empty); on success method, uri and version come from
\* fields 0, 1 and 2 with the uri unchanged.
C8_RequestLineFields ==
    fn_out.some =>
        /\ Count(fn_in, " ") # 2 => ~fn_out.val.ok
        /\ (Count(fn_in, " ") = 2 /\ ~FieldsParse(fn_in)) => ~fn_out.val.ok
        /\ (Count(fn_in, " ") = 2 /\ FieldsParse(fn_in)) => fn_out.val.ok
        /\ fn_out.val.ok => fn_out.val.val = FromFields(fn_in)

\* `GET /index.html HTTP/1.1` was parsed to GET, /index.html, 1.1.
C8_Witness ==
    /\ fn_in = <<"G", "E", "T", " ", "/", "i", "n", "d", "e", "x", ".",
                 "h", "t", "m", "l", " ", "H", "T", "T", "P", "/", "1", ".", "1">>
    /\ fn_out = Some(Ok([method |-> [variant |-> "GET"],
                         uri |-> <<"/", "i", "n", "d", "e", "x", ".",
                                   "h", "t", "m", "l">>,
                         v_major |-> 1, v_minor |-> 1]))

\* The form HTTP/<major>.<minor>: one slash with HTTP before it, one dot
\* after it, a numeral on each side of the dot.
VersionForm(s) ==
    /\ Count(s, "/") = 1
    /\ Field(s, "/", 1) = <<"H", "T", "T", "P">>
    /\ Count(Field(s, "/", 2), ".") = 1
    /\ IsNumeral(Field(Field(s, "/", 2), ".", 1))
    /\ IsNumeral(Field(Field(s, "/", 2), ".", 2))

\* C9: parse_version_numbers accepts a field only when it has the form
\* HTTP/<major>.<minor>, and then returns these two numbers; every other
\* field is an error, never a default version.
C9_VersionForm ==
    fn_out.some =>
        /\ ~VersionForm(fn_in) => ~fn_out.val.ok
        /\ fn_out.val.ok =>
               /\ VersionForm(fn_in)
               /\ fn_out.val.val =
                      <<ValueOfNumeral(Field(Field(fn_in, "/", 2), ".", 1)),
                        ValueOfNumeral(Field(Field(fn_in, "/", 2), ".", 2))>>

\* `HTTP/1.1` was accepted as version 1.1.
C9_Witness ==
    /\ fn_in = <<"H", "T", "T", "P", "/", "1", ".", "1">>
    /\ fn_out = Some(Ok(<<1, 1>>))

\* C10 as stated: without a colon the whole string is the hostname and the
\* port is 80; with one colon the hostname precedes it and the port is the
\* integer after it, or the result is an error when what follows the colon
\* is not a non-negative integer; with more colons the result is an error.
C10_Original ==
    fn_out.some =>
        /\ Count(fn_in, ":") = 0
           => fn_out.val = Ok([hostname |-> fn_in, port |-> 80])
        /\ (Count(fn_in, ":") = 1 /\ IsNumeral(Field(fn_in, ":", 2)))
           => /\ fn_out.val.ok
              /\ fn_out.val.val.hostname = Field(fn_in, ":", 1)
              /\ fn_out.val.val.port = ValueOfNumeral(Field(fn_in, ":", 2))
        /\ (Count(fn_in, ":") = 1 /\ ~IsNumeral(Field(fn_in, ":", 2)))
           => ~fn_out.val.ok
        /\ Count(fn_in, ":") > 1 => ~fn_out.val.ok

\* C10 (amended): as stated, except that with one colon the port is accepted
\* only when it is a non-negative integer of at most 4294967295 (u32::MAX);
\* a larger integer after the colon is an error like a non-integer.
C10_HostParse ==
    fn_out.some =>
        /\ Count(fn_in, ":") = 0
           => fn_out.val = Ok([hostname |-> fn_in, port |-> 80])
        /\ (/\ Count(fn_in, ":") = 1
            /\ IsNumeral(Field(fn_in, ":", 2))
            /\ FitsU32(Field(fn_in, ":", 2)))
           => /\ fn_out.val.ok
              /\ fn_out.val.val.hostname = Field(fn_in, ":", 1)
              /\ fn_out.val.val.port = ValueOfNumeral(Field(fn_in, ":", 2))
        /\ (/\ Count(fn_in, ":") = 1
            /\ ~(/\ IsNumeral(Field(fn_in, ":", 2))
                 /\ FitsU32(Field(fn_in, ":", 2))))
           => ~fn_out.val.ok
        /\ Count(fn_in, ":") > 1 => ~fn_out.val.ok

\* `example.com:8080` was parsed to the host example.com and the port 8080.
C10_Witness ==
    /\ fn_in = <<"e", "x", "a", "m", "p", "l", "e", ".", "c", "o", "m", ":",
                 "8", "0", "8", "0">>
    /\ fn_out = Some(Ok([hostname |-> <<"e", "x", "a", "m", "p", "l", "e", ".",
                                        "c", "o", "m">>,
                         port |-> 8080]))

---------------------------------------------------------------------------
(* C11: rendering an accepted host and parsing the rendering again *)

\* The port of a host the parser accepted for the input x: the integer after
\* the colon, 80 when x has no colon.
PortOfInput(x) ==
    IF Count(x, ":") = 0 THEN 80 ELSE ValueOfNumeral(Field(x, ":", 2))

\* A decimal numeral as Display writes an integer: digits only, no sign and
\* no leading zero.
IsCanonicalNumeral(s) ==
    /\ s # <<>>
    /\ \A i \in 1..Len(s) : s[i] \in Digits
    /\ (Len(s) > 1 => s[1] # "0")

\* C11: for every string x that parse_host_from_wire accepts, the rendering
\* of the resulting Host is `hostname:port`, the port being written even
\* when it was defaulted, and parsing that rendering succeeds and yields the
\* same hostname and the same port, 80 when x had no port.
C11_HostRoundTrip ==
    (fn_out.some /\ fn_out.val.ok) =>
        LET host == fn_out.val.val
            rendered == Host_fmt(host)
        IN  /\ Count(rendered, ":") = 1
            /\ Field(rendered, ":", 1) = Field(fn_in, ":", 1)
            /\ IsCanonicalNumeral(Field(rendered, ":", 2))
            /\ ValueOfNumeral(Field(rendered, ":", 2)) = PortOfInput(fn_in)
            /\ parse_host_from_wire(rendered) =
                   Ok([hostname |-> Field(fn_in, ":", 1),
                       port |-> PortOfInput(fn_in)])

\* `a.com`, which has no port, was accepted, is rendered as `a.com:80`, and
\* that rendering parses to the same host.
C11_Witness ==
    /\ fn_in = <<"a", ".", "c", "o", "m">>
    /\ fn_out.some
    /\ fn_out.val.ok
    /\ Host_fmt(fn_out.val.val) = <<"a", ".", "c", "o", "m", ":", "8", "0">>
    /\ parse_host_from_wire(Host_fmt(fn_out.val.val)) = fn_out.val

---------------------------------------------------------------------------
(* C12: how a header line is split into name and value *)

\* The header line read i is the last stored line whose name, without the
\* whitespace around it, is name.
LastStoredOf(i, name) ==
    /\ i \in StoredReads
    /\ \A k \in StoredReads :
           k > i => Trim(NameOf(reads[k].text)) # name

\* The split of a header line at its first colon, with the name taken as
\* nameOf gives it: the line is classified by that name, is stored exactly
\* when the value after the first colon is valid for it, and the slot of
\* that name then holds this value; a line without colon is an error.
SplitsAtFirstColon(nameOf(_)) ==
    \A i \in HeaderReads :
        reads[i].text # <<>> =>
            IF HasColon(reads[i].text)
            THEN LET name == nameOf(reads[i].text)
                     value == ValueOf(reads[i].text)
                 IN  /\ reads[i].class = ClassOf(name)
                     /\ reads[i].outcome = "ok" <=> ValidValue(name, value)
                     /\ LastStoredOf(i, Trim(name))
                        => SlotOf(request_headers, general_headers,
                                  entity_headers, name)
                           = StoredForm(name, value)
            ELSE /\ reads[i].outcome = "err"
                 /\ i = Len(reads)
                 /\ pc = "Failed"

TrimmedNameOf(text) == Trim(NameOf(text))

\* C12: a header line is split at its first colon only, so that the value
\* may hold colons; a line without colon fails the parse; and both the name
\* and the value lose their leading and trailing whitespace before the name
\* is classified, so that whitespace between the name and the colon does
\* not change which slot receives the value.
C12_HeaderLineSplit == SplitsAtFirstColon(TrimmedNameOf)

\* The same split with the name taken as it stands before the colon, which
\* is what the header loop classifies.
C12_UntrimmedName == SplitsAtFirstColon(NameOf)

---------------------------------------------------------------------------
(* C13: a stream that is at its end, or whose first line is empty *)

\* The stream holds nothing, or nothing but whitespace before its first
\* line feed.
FirstLineEmpty(s) == Trim(SubSeq(s, 1, NthPos(s, LF, 1) - 1)) = <<>>

\* C13: when the stream is at its end, or its first line is empty, as the
\* parse starts, the first read ends the parse with an error: no request is
\* returned and no header line is ever read.
C13_EmptyFirstLineFails ==
    (FirstLineEmpty(stream) /\ reads # <<>>) =>
        /\ pc = "Failed"
        /\ Returned
        /\ ~result.val.ok
        /\ Len(reads) = 1
        /\ reads[1].kind = "request_line"
        /\ reads[1].outcome = "err"
        /\ HeaderReads = {}

\* The parse of a stream that starts with an empty line and goes on with
\* header lines has failed at the empty line.
C13_Witness ==
    /\ Len(stream) > 2
    /\ SubSeq(stream, 1, 2) = CRLF
    /\ pc = "Failed"
    /\ pos = 2

\* The parse of the stream that holds nothing has failed.
C13_AtEndReached == stream = <<>> /\ pc = "Failed" /\ Len(reads) = 1

---------------------------------------------------------------------------
(* C14: the order of the phases and of the lines *)

\* The place of a phase in the order of the parse.
PhaseRank(p) ==
    CASE p = "AwaitRequestLine" -> 1
      [] p = "AwaitHeaders" -> 2
      [] p = "MaybeBody" -> 3
      [] p = "Done" -> 4

\* A step stays in its phase or moves to the next one, or leaves the parse
\* with an error; nothing follows Done or an error.
PhaseStep ==
    /\ pc \in {"AwaitRequestLine", "AwaitHeaders", "MaybeBody"}
    /\ pc' \in {"AwaitRequestLine", "AwaitHeaders", "MaybeBody", "Done",
                "Failed"}
    /\ pc' # "Failed" =>
           /\ PhaseRank(pc') \in {PhaseRank(pc), PhaseRank(pc) + 1}
           /\ pc' = "AwaitRequestLine" => pc = "AwaitRequestLine"
    /\ pc' = "Failed" => pc \in {"AwaitRequestLine", "AwaitHeaders"}

\* The offset at which the line that starts after offset p ends.
LineEnd(p) ==
    IF \E j \in (p + 1)..Len(stream) : stream[j] = LF
    THEN CHOOSE j \in (p + 1)..Len(stream) :
             stream[j] = LF /\ \A k \in (p + 1)..(j - 1) : stream[k] # LF
    ELSE Len(stream)

\* The bytes of the stream after offset p and up to offset q are an empty
\* line, or nothing at all.
IsEmptyLine(p, q) ==
    LET line == from_utf8(SubSeq(stream, p + 1, q))
    IN  line.ok /\ Trim(line.val) = <<>>

\* The bytes read i consumed are an empty line, or nothing at all.
ReadIsEmptyLine(i) == IsEmptyLine(reads[i].from, reads[i].to)

\* The reads follow the stream: each starts where the one before it ended;
\* the first one, and no other, is parsed as the request line; each line
\* read takes one line of the stream; and after the read of an empty line
\* there is at most one more read, which is the read of the body.
ReadsInOrder ==
    \A i \in 1..Len(reads) :
        /\ reads[i].from = IF i = 1 THEN 0 ELSE reads[i - 1].to
        /\ reads[i].kind = "request_line" <=> i = 1
        /\ reads[i].kind \in {"request_line", "header", "body"}
        /\ reads[i].kind # "body" => reads[i].to = LineEnd(reads[i].from)
        /\ (i > 1 /\ reads[i].kind = "header" /\ ReadIsEmptyLine(i)) =>
               \A j \in (i + 1)..Len(reads) :
                   /\ reads[j].kind = "body"
                   /\ j = i + 1
        /\ reads[i].kind = "body" =>
               /\ i > 1
               /\ reads[i - 1].kind = "header"
               /\ ReadIsEmptyLine(i - 1)

\* C14: a parse moves through AwaitRequestLine, AwaitHeaders, MaybeBody and
\* Done in this order and never back; only the first line is parsed as the
\* request line, every following non-empty line up to the first empty line
\* is parsed as a header, and nothing after the first empty line is parsed
\* as a header or as a request line: it is read as body bytes or not at all.
C14_PhaseOrder == [](ReadsInOrder) /\ [][PhaseStep]_vars

\* A parse is Done that read the request line, two header lines, the empty
\* line and the body, and left the bytes behind the body unread.
C14_Witness ==
    /\ pc = "Done"
    /\ Len(reads) = 5
    /\ reads[5].kind = "body"
    /\ reads[5].to > reads[5].from
    /\ pos < Len(stream)

---------------------------------------------------------------------------
(* C15: the bytes the body read consumes *)

\* The number of bytes a body read of the declared length n consumes when
\* it starts at offset p.
BodyBytes(n, p) == IF Len(stream) - p >= n THEN n ELSE Len(stream) - p

\* C15: when the parsed content length N is greater than 0, the body read
\* starts after the empty line and consumes exactly min(N, bytes remaining)
\* bytes, never a byte beyond the N-th; when the stream ends before N bytes
\* the shorter body is returned as a success.
C15_BodyReadBounded ==
    LET n == entity_headers.fields["ContentLength"]
    IN  (pc = "Done" /\ n.some /\ n.val > 0) =>
            LET blank == reads[BlankRead]
                body == reads[Len(reads)]
            IN  /\ body.kind = "body"
                /\ body.from = blank.to
                /\ body.to = body.from + BodyBytes(n.val, body.from)
                /\ pos = body.to
                /\ pos <= blank.to + n.val
                /\ ReturnedRequest
                /\ result.val.val.body =
                       Some(from_utf8_lossy(
                                SubSeq(stream, body.from + 1, body.to)))

\* The content length is 5 and two bytes follow the empty line: the request
\* is returned with a body of these two bytes.
C15_Witness ==
    /\ pc = "Done"
    /\ entity_headers.fields["ContentLength"] = Some(5)
    /\ reads[BlankRead].to > reads[BlankRead].from
    /\ Len(stream) - reads[BlankRead].to = 2
    /\ ReturnedRequest
    /\ result.val.val.body = Some(<<"h", "i">>)

\* The content length is 5 and six bytes follow the empty line: the sixth
\* is left unread.
C15_LongerStreamReached ==
    /\ pc = "Done"
    /\ entity_headers.fields["ContentLength"] = Some(5)
    /\ Len(stream) - reads[BlankRead].to = 6
    /\ pos = Len(stream) - 1

\* The content length is 5 and the fifth byte after the empty line is the
\* first of the two bytes of U+00A0: the body ends with U+FFFD in place of
\* the byte, and the second byte is left unread.
C15_CutCharReached ==
    /\ pc = "Done"
    /\ entity_headers.fields["ContentLength"] = Some(5)
    /\ ReturnedRequest
    /\ result.val.val.body = Some(<<"a", "b", "c", "d", ReplacementChar>>)
    /\ stream[pos] = "xC2"
    /\ pos = Len(stream) - 1

\* The same bound for the HttpElems iterator, checked under SpecElems: the
\* call that yields the body consumes, after the empty line it read,
\* min(content_length, bytes remaining) bytes.
C15_ElemsBodyBounded ==
    \A i \in 1..Len(calls) :
        (calls[i].item.some /\ calls[i].item.val.ok
         /\ calls[i].item.val.val.elem = "Body") =>
            LET blank == LineEnd(calls[i].from)
            IN  /\ http_elems.content_length > 0
                /\ calls[i].to =
                       blank + BodyBytes(http_elems.content_length, blank)
                /\ calls[i].item.val.val.body =
                       from_utf8_lossy(SubSeq(stream, blank + 1, calls[i].to))

---------------------------------------------------------------------------
(* C16: the headers no table knows *)

\* The names the Request, General and Entity tables recognize.
RecognizedNames ==
    WireNames(RequestHeaderTable) \cup WireNames(GeneralHeaderTable)
    \cup WireNames(EntityHeaderTable)

\* No name of the Response table is recognized by the three tables the
\* header loop consults.
ResponseNamesUnrecognized ==
    WireNames(ResponseHeaderTable) \cap RecognizedNames = {}

\* The step read a header line with a colon whose name is not recognized.
ReadsUnrecognizedHeader ==
    /\ Len(reads') = Len(reads) + 1
    /\ LET line == reads'[Len(reads')]
       IN  /\ line.kind = "header"
           /\ line.text # <<>>
           /\ HasColon(line.text)
           /\ Trim(NameOf(line.text)) \notin RecognizedNames

\* The step put the header line it read into the extension bucket, under
\* the name and with the trimmed value of the line, and touched nothing
\* else of the three containers.
StoresInExtensionsOnly ==
    LET line == reads'[Len(reads')]
        name == NameOf(line.text)
        value == ValueOf(line.text)
    IN  /\ line.outcome = "ok"
        /\ pc' = "AwaitHeaders"
        /\ request_headers' = request_headers
        /\ general_headers' = general_headers
        /\ entity_headers'.fields = entity_headers.fields
        /\ DOMAIN entity_headers'.extensions =
               DOMAIN entity_headers.extensions \cup {name}
        /\ \A k \in DOMAIN entity_headers'.extensions :
               entity_headers'.extensions[k] =
                   IF k = name THEN value ELSE entity_headers.extensions[k]

\* C16: a header whose name is not recognized by the Request, General or
\* Entity table, which includes every name of the Response table, is stored
\* in the Entity extension bucket under exactly that name with its trimmed
\* value, and no typed slot of any container changes.
C16_UnknownToExtensions ==
    /\ [](ResponseNamesUnrecognized)
    /\ [][ReadsUnrecognizedHeader => StoresInExtensionsOnly]_vars

\* `Server: s`, a name of the Response table, was read after `Host: a.com`:
\* the extension bucket holds Server with the value s, and the host slot
\* still holds a.com.
C16_Witness ==
    /\ Len(reads) = 3
    /\ reads[3].text = <<"S", "e", "r", "v", "e", "r", ":", " ", "s">>
    /\ <<"S", "e", "r", "v", "e", "r">> \in WireNames(ResponseHeaderTable)
    /\ DOMAIN entity_headers.extensions = {<<"S", "e", "r", "v", "e", "r">>}
    /\ entity_headers.extensions[<<"S", "e", "r", "v", "e", "r">>] = <<"s">>
    /\ request_headers["Host"] =
           Some([hostname |-> <<"a", ".", "c", "o", "m">>, port |-> 80])

---------------------------------------------------------------------------
(* C17: the HttpElems iterator after an error *)

\* The call i of next returned an error.
YieldedErr(i) == calls[i].item.some /\ ~calls[i].item.val.ok

\* C17: the HttpElems iterator stops at the first error: after a call of
\* next has returned an Err, no later call of next reads a further line or
\* yields a further element.
C17_StopsAtFirstError ==
    \A i \in 1..Len(calls) :
        YieldedErr(i) =>
            \A j \in (i + 1)..Len(calls) :
                /\ calls[j].to = calls[j].from
                /\ ~calls[j].item.some

\* What the iterator does stop at: the loop ends at the first None, and
\* after the call that yielded the body every call reads nothing and returns
\* None.
C17_StopsWhenDone ==
    /\ \A i \in 1..Len(calls) : ~calls[i].item.some => i = Len(calls)
    /\ pc = "LoopEnded" <=> (calls # <<>> /\ ~calls[Len(calls)].item.some)
    /\ \A i \in 1..Len(calls) :
           (calls[i].item.some /\ calls[i].item.val.ok
            /\ calls[i].item.val.val.elem = "Body") =>
               /\ http_elems.done
               /\ \A j \in (i + 1)..Len(calls) :
                      /\ calls[j].to = calls[j].from
                      /\ ~calls[j].item.some

\* A call of next has yielded a header element after an earlier call had
\* returned an error.
C17_ErrorThenHeaderReached ==
    \E i \in 1..Len(calls) :
        /\ YieldedErr(i)
        /\ \E j \in (i + 1)..Len(calls) :
               /\ calls[j].item.some
               /\ calls[j].item.val.ok
               /\ calls[j].item.val.val.elem = "Header"

---------------------------------------------------------------------------
(* C18: the end of the stream before the empty line *)

\* The header read i found the stream at its end.
ReadAtEndOfStream(i) ==
    /\ i \in HeaderReads
    /\ reads[i].from = Len(stream)

\* The request holds what the request line and the stored header lines
\* say: for each name the value of the last line stored under it.
BuiltFromReads(request) ==
    /\ request.request_line = parse_request_line(reads[1].text).val
    /\ \A i \in StoredReads :
           LET name == NameOf(reads[i].text)
           IN  (\A k \in StoredReads :
                    k > i => NameOf(reads[k].text) # name)
               => SlotOf(request.request_headers, request.general_headers,
                         request.entity_headers, name)
                  = StoredForm(name, ValueOf(reads[i].text))

\* C18: when the stream ends after a valid request line and before any
\* empty line, the end of the stream is treated like the empty line: it
\* ends the headers without an error, and parse_http_request returns a
\* successful HttpRequest built from the headers read so far.
C18_EofEndsHeaders ==
    \A i \in 1..Len(reads) :
        ReadAtEndOfStream(i) =>
            /\ reads[1].outcome = "ok"
            /\ reads[i].to = reads[i].from
            /\ reads[i].outcome = "break"
            /\ pc \in {"MaybeBody", "Done"}
            /\ pc = "Done" =>
                   /\ ReturnedRequest
                   /\ BuiltFromReads(result.val.val)
                   /\ pos = Len(stream)

\* The stream ended after the request line and `Host: a.com`, and the
\* request was returned with this host.
C18_Witness ==
    /\ pc = "Done"
    /\ Len(reads) = 3
    /\ ReadAtEndOfStream(3)
    /\ reads[2].outcome = "ok"
    /\ ReturnedRequest
    /\ result.val.val.request_headers["Host"] =
           Some([hostname |-> <<"a", ".", "c", "o", "m">>, port |-> 80])
    /\ result.val.val.body = None

---------------------------------------------------------------------------
(* C19: termination *)

\* parse_http_request has returned.
Terminated == pc \in {"Done", "Failed"}

\* An iteration of the header loop consumes one non-empty line and goes on,
\* or it stops: at an empty line, at the end of the stream, or with an
\* error.  The body read consumes no more than the content length and no
\* more than what the stream holds.
LoopProgress ==
    /\ (pc = "AwaitHeaders" /\ pc' = "AwaitHeaders") =>
           /\ pos' > pos
           /\ pos' = LineEnd(pos)
           /\ ~IsEmptyLine(pos, pos')
    /\ (pc = "AwaitHeaders" /\ pc' = "MaybeBody") =>
           /\ pos' = LineEnd(pos)
           /\ IsEmptyLine(pos, pos')
    /\ pc = "MaybeBody" =>
           /\ pc' = "Done"
           /\ pos' >= pos
           /\ pos' <= Len(stream)
           /\ pos' > pos =>
                  /\ entity_headers.fields["ContentLength"].some
                  /\ pos' - pos <= entity_headers.fields["ContentLength"].val
    /\ Len(stream') = Len(stream)

\* C19: on every finite stream whose reads do not block parse_http_request
\* eventually returns: each iteration of the header loop either consumes one
\* non-empty line or stops at an empty line or at the end of the stream,
\* and the body read is bounded by the content length and by the end of the
\* stream.
C19_Terminates == <>Terminated /\ [][LoopProgress]_vars

\* The parse has returned after two iterations of the header loop that
\* each consumed a line, a third that found the empty line, and a body read
\* that found fewer bytes than the content length.
C19_Witness ==
    /\ Terminated
    /\ Len(reads) = 5
    /\ reads[2].outcome = "ok"
    /\ reads[3].outcome = "ok"
    /\ reads[5].kind = "body"
    /\ pos = Len(stream)
    /\ entity_headers.fields["ContentLength"].some
    /\ reads[5].to - reads[5].from < entity_headers.fields["ContentLength"].val

---------------------------------------------------------------------------
(* C20: what the handling of one header line leaves alone *)

\* The slots and extension keys whose content the step changes.
ChangedSlots ==
    {<<"request", v>> : v \in {x \in DOMAIN request_headers :
                                  request_headers'[x] # request_headers[x]}}
    \cup {<<"general", v>> : v \in {x \in DOMAIN general_headers :
                                     general_headers'[x] # general_headers[x]}}
    \cup {<<"entity", v>> : v \in {x \in DOMAIN entity_headers.fields :
                                    entity_headers'.fields[x]
                                        # entity_headers.fields[x]}}
    \cup {<<"extension", k>> :
             k \in {x \in DOMAIN entity_headers.extensions
                          \cup DOMAIN entity_headers'.extensions :
                      \/ x \notin DOMAIN entity_headers.extensions
                      \/ x \notin DOMAIN entity_headers'.extensions
                      \/ entity_headers'.extensions[x]
                             # entity_headers.extensions[x]}}

\* The slot, or the extension key, the tables give a header name.
TargetSlot(name) ==
    IF name \in WireNames(RequestHeaderTable)
    THEN <<"request", Lookup(RequestHeaderTable, name).val>>
    ELSE IF name \in WireNames(GeneralHeaderTable)
    THEN <<"general", Lookup(GeneralHeaderTable, name).val>>
    ELSE IF name \in WireNames(EntityHeaderTable)
    THEN <<"entity", Lookup(EntityHeaderTable, name).val>>
    ELSE <<"extension", name>>

\* A step changes slots only when it handles a header line, and then at
\* most the slot of the name of that line; when the insert fails, which it
\* does for a Host value that does not parse and for a content length that
\* is not an integer, it changes nothing.
FrameStep ==
    LET line == reads'[Len(reads')]
        handled == /\ Len(reads') = Len(reads) + 1
                   /\ line.kind = "header"
                   /\ line.text # <<>>
                   /\ HasColon(line.text)
    IN  /\ ~handled => ChangedSlots = {}
        /\ handled =>
               /\ ChangedSlots \subseteq {TargetSlot(NameOf(line.text))}
               /\ line.outcome # "ok" => ChangedSlots = {}
               /\ ~ValidValue(NameOf(line.text), ValueOf(line.text)) =>
                      /\ line.outcome = "err"
                      /\ ChangedSlots = {}

\* C20: handling one header line changes at most the one slot, or the one
\* extension key, its name is classified to, and every other slot keeps its
\* value; an insert that fails, for a Host value that does not parse or a
\* content length that is not an integer, leaves the targeted slot and
\* everything else unchanged.
C20_HeaderFrame == [][FrameStep]_vars

\* `Host: a.com` was stored, then the insert of `Host: a:b:c` failed: the
\* host slot still holds a.com.
C20_Witness ==
    /\ pc = "Failed"
    /\ Len(reads) = 3
    /\ reads[2].outcome = "ok"
    /\ reads[3].text = <<"H", "o", "s", "t", ":", " ", "a", ":", "b", ":", "c">>
    /\ reads[3].outcome = "err"
    /\ request_headers["Host"] =
           Some([hostname |-> <<"a", ".", "c", "o", "m">>, port |-> 80])

\* `ContentLength: 5` was stored, then the insert of `ContentLength: abc`
\* failed: the content length is still 5.
C20_LengthKeptReached ==
    /\ pc = "Failed"
    /\ Len(reads) = 3
    /\ reads[3].outcome = "err"
    /\ reads[3].class = "entity"
    /\ entity_headers.fields["ContentLength"] = Some(5)

====
